---- MODULE Spec2Model ----
(***************************************************************************)
(* Drk launcher core (src-tauri/src/minecraft): descriptor resolution and  *)
(* merge, library deduplication, the download/verify/retry primitive and   *)
(* its worker-pool batches, and the forge command assembly.                *)
(*                                                                         *)
(* Option<T> values are sequences: None is <<>> and Some(x) is <<x>>.      *)
(* A library name "g:a:v[:c][@ext]" is kept as the list of its ':'-split   *)
(* items plus the optional text after '@'.                                 *)
(***************************************************************************)
EXTENDS Integers, Sequences, FiniteSets, TLC

VARIABLES
    \* deduplicate_libraries applied to one input list
    libs, deduped,
    \* one merge step of resolve_complete_version_info
    current_info, parent_info, merged,
    \* resolve_complete_version_info as run by a loader adapter:
    \*   manifest     ids listed in the version manifest
    \*   remote       id -> descriptor JSON served at the manifest entry's url
    \*   disk         id -> Option<descriptor JSON> at versions/<id>/<id>.json
    \*   rstack       the current_info of every call waiting for its parent
    \*   rid          the version_id of the innermost call
    \*   rpc          "load" | "return" | "done": where the innermost call stands
    \*   rret         Option<Result>: the value travelling up
    \*   requests     number of HTTP requests sent so far
    \*   stage        the adapter: "resolve" | "acquire" | "libraries" | "failed"
    \*   rpass        1 for the first launch of the version, 2 for the next
    \*   rfirst       what the first launch got from resolve_complete_version_info
    \*   rlog         every call of load_version_info so far: [id, had,
    \*                listed, gets, ret, wrote]
    manifest, remote, disk, rstack, rid, rpc, rret, requests, stage, rpass, rfirst, rlog,
    \* one acquisition batch (download_libraries_parallel,
    \* download_assets_parallel, download_mods_parallel):
    \*   batch        [kind, paths, hashed]: the kind of batch, the destination
    \*                path of every queued task, whether tasks carry a sha1
    \*   tasks        the VecDeque: indices of the tasks still queued
    \*   files        path -> "absent" | "good" | "bad": the file at the path
    \*                ("good": its sha1 is the expected one)
    \*   wk           worker -> [pc, task, attempt, outer, last_error, current,
    \*                holds]; holds is the set of mutexes whose guard the
    \*                worker has alive
    \*   error        the shared first-error slot: Option<[task, class]>
    \*   done         the AtomicU64 of completed tasks
    \*   batch_result Option<Result>: what the batch returned
    \* and what the run has done so far, kept for the properties:
    \*   files0       the files when the batch started
    \*   stat         task -> [gets, fails, mism, okget, res]: GETs sent,
    \*                failed attempts, attempts that ended in a hash mismatch,
    \*                whether a GET succeeded, how the task ended
    \*   late         worker -> tasks it dequeued while the error slot was set
    \*   events       the percent of every progress event, in the order the
    \*                sink received them
    batch, tasks, files, wk, error, done, batch_result, files0, stat, late, events,
    \* build_forge_command:
    \*   forge_libs       info.libraries of the resolved descriptor
    \*   host             [os, arch]: get_os_name() and get_arch()
    \*   jars             the paths that exist on disk
    \*   library_map      normalized path -> MavenName
    \*   module_path_set  the paths forced onto the module path
    \*   final_classpath  the classpath being assembled
    \*   args_file        [p, cp]: the "-p" and "-cp" values written to args.txt
    \*   fpc              how far the function has got
    forge_libs, host, jars, library_map, module_path_set, final_classpath, args_file, fpc,
    \* a vanilla launch (prepare_and_launch, download_vanilla,
    \* build_vanilla_command) and the version list (get_release_versions):
    \*   lpc          where the call stands
    \*   fetch_caller the function whose manifest fetch is running or ran last
    \*   url_i        the index of the manifest url the loop is at
    \*   last_err     the loop's last_err
    \*   contacted    the responses of the running fetch: [url, kind] in order
    \*   fetch_ret    Option<Result>: what the fetch returned
    \*   net_requests HTTP requests sent since the call started
    \*   origin       [listed, info]: whether the manifest lists the version,
    \*                and the descriptor the servers hold for it
    \*   local        [descriptor, version_json, java, files]: what is on disk
    \*   local0       local when the call started
    \*   todo         the files download_vanilla has still to acquire
    \*   launch_ret   Option<Result>: what the call returned
    lpc, fetch_caller, url_i, last_err, contacted, fetch_ret, net_requests,
    origin, local, local0, todo, launch_ret,
    \* the Java runtime (get_required_java_version, get_java_path_for_major,
    \* download_java):
    \*   mc_version    the characters of the version id
    \*   target        Option<[minor, patch]>: the numbers the id was written from
    \*   java_env      [system, bin_java, javaw, os]: the `java -version` text of
    \*                 the system runtime with its major (or None), whether
    \*                 java/<major>/bin holds java(.exe) and javaw.exe, the host
    \*   jpc           where the call stands
    \*   required_java the required major
    \*   java_ret      Option<Result>: what the last function returned
    \*   java_try      the attempt of the running retry loop
    mc_version, target, java_env, jpc, required_java, java_ret, java_try,
    \* ensure_forge_installed with get_forge_recommended_version:
    \*   fmc           the characters of mc_version
    \*   fipc          where the call stands
    \*   src_i         the index of the next source of the build number
    \*   ftried        the sources asked so far: [kind, body], body None when
    \*                 the GET brought no readable answer
    \*   flast_err     last_err of get_forge_recommended_version
    \*   forge_version Option<Result>: what get_forge_recommended_version returned
    \*   versions_dir  the directories of versions/ that hold their <name>.json
    \*   fvariants     the installer runs so far: [shape, status_ok, produced]
    \*   install_ret   Option<Result>: what ensure_forge_installed returned
    fmc, fipc, src_i, ftried, flast_err, forge_version, versions_dir, fvariants, install_ret,
    \* build_fabric_command (fabric_loader.rs)
    \*   fab_pc           the position in build_fabric_command
    \*   fab_info         the descriptor passed in: id, inherits_from, java_version
    \*   fab_meta         the libraries of versions/<id>/version.json and of the
    \*                    parent's descriptor on disk (None: absent or unreadable)
    \*   fab_client       whether client.jar exists in the instance
    \*   fab_disk         the library files on disk
    \*   fab_queue        the libraries of the descriptor being read still to visit
    \*   fab_jars         the local jars
    \*   fab_java         the local java_path
    \*   fabric_ret       what build_fabric_command returned
    fab_pc, fab_info, fab_meta, fab_client, fab_disk, fab_queue, fab_jars, fab_java, fabric_ret,
    \* prepare_and_launch with loader "fabric", lines 228-247:
    \*   fabric_child     what load_fabric_profile_info returned
    \*   fabric_parent    the resolved parent
    \*   version_info     the value of the block
    fabric_child, fabric_parent, version_info,
    \* check_rules (utils.rs):
    \*   rule_list        the Option<Vec<Rule>> passed in
    \*   rule_verdict     Option<bool>: what check_rules returned
    rule_list, rule_verdict,
    \* the library loop of download_vanilla, download_fabric and download_forge:
    \*   ph_adapter       which of the three runs
    \*   ph_queue         the libraries of info.libraries still to visit
    \*   ph_tried         the calls of download_file so far: [path, kind, ok]
    \*   ph_ret           Option<Result>: what the function returned
    ph_adapter, ph_queue, ph_tried, ph_ret,
    \* One prepare run and the progress events it sends:
    \*   run_pc       the position of prepare_and_launch and of its caller
    \*   run_env      what the run meets: [loader, forge, java, downloads,
    \*                assets, libraries, profile_libraries]
    \*   sink         the percent values of the events in the order sent
    \*   run_ret      None, or Some(TRUE | FALSE): prepare returned Ok | Err
    run_pc, run_env, sink, run_ret

dedupVars == <<libs, deduped>>
mergeVars == <<current_info, parent_info, merged>>
resolveVars == <<manifest, remote, disk, rstack, rid, rpc, rret, requests, stage, rpass, rfirst, rlog>>
batchVars == <<batch, tasks, files, wk, error, done, batch_result, files0, stat, late, events>>
forgeVars == <<forge_libs, host, jars, library_map, module_path_set, final_classpath, args_file, fpc>>
launchVars == <<lpc, fetch_caller, url_i, last_err, contacted, fetch_ret, net_requests,
                origin, local, local0, todo, launch_ret>>
javaVars == <<mc_version, target, java_env, jpc, required_java, java_ret, java_try>>
installVars == <<fmc, fipc, src_i, ftried, flast_err, forge_version, versions_dir, fvariants, install_ret>>
fabricVars == <<fab_pc, fab_info, fab_meta, fab_client, fab_disk, fab_queue, fab_jars, fab_java, fabric_ret>>
profileVars == <<fabric_child, fabric_parent, version_info>>
rulesVars == <<rule_list, rule_verdict>>
phaseVars == <<ph_adapter, ph_queue, ph_tried, ph_ret>>
runVars == <<run_pc, run_env, sink, run_ret>>
vars == <<libs, deduped, current_info, parent_info, merged,
          manifest, remote, disk, rstack, rid, rpc, rret, requests, stage, rpass, rfirst, rlog,
          batch, tasks, files, wk, error, done, batch_result, files0, stat, late, events,
          forge_libs, host, jars, library_map, module_path_set, final_classpath, args_file, fpc,
          lpc, fetch_caller, url_i, last_err, contacted, fetch_ret, net_requests,
          origin, local, local0, todo, launch_ret,
          mc_version, target, java_env, jpc, required_java, java_ret, java_try,
          fmc, fipc, src_i, ftried, flast_err, forge_version, versions_dir, fvariants, install_ret,
          fab_pc, fab_info, fab_meta, fab_client, fab_disk, fab_queue, fab_jars, fab_java, fabric_ret,
          fabric_child, fabric_parent, version_info,
          rule_list, rule_verdict,
          ph_adapter, ph_queue, ph_tried, ph_ret,
          run_pc, run_env, sink, run_ret>>

\* what the actions of one part leave alone
notDedup == <<mergeVars, resolveVars, batchVars, forgeVars, launchVars, javaVars, installVars, fabricVars, profileVars, rulesVars, phaseVars, runVars>>
notMerge == <<dedupVars, resolveVars, batchVars, forgeVars, launchVars, javaVars, installVars, fabricVars, profileVars, rulesVars, phaseVars, runVars>>
notResolve == <<dedupVars, mergeVars, batchVars, forgeVars, launchVars, javaVars, installVars, fabricVars, profileVars, rulesVars, phaseVars, runVars>>
notBatch == <<dedupVars, mergeVars, resolveVars, forgeVars, launchVars, javaVars, installVars, fabricVars, profileVars, rulesVars, phaseVars, runVars>>
notForge == <<dedupVars, mergeVars, resolveVars, batchVars, launchVars, javaVars, installVars, fabricVars, profileVars, rulesVars, phaseVars, runVars>>
notLaunch == <<dedupVars, mergeVars, resolveVars, batchVars, forgeVars, javaVars, installVars, fabricVars, profileVars, rulesVars, phaseVars, runVars>>
notJava == <<dedupVars, mergeVars, resolveVars, batchVars, forgeVars, launchVars, installVars, fabricVars, profileVars, rulesVars, phaseVars, runVars>>
notInstall == <<dedupVars, mergeVars, resolveVars, batchVars, forgeVars, launchVars, javaVars, fabricVars, profileVars, rulesVars, phaseVars, runVars>>
notFabric == <<dedupVars, mergeVars, resolveVars, batchVars, forgeVars, launchVars, javaVars, installVars, profileVars, rulesVars, phaseVars, runVars>>
notProfile == <<dedupVars, mergeVars, resolveVars, batchVars, forgeVars, launchVars, javaVars, installVars, fabricVars, rulesVars, phaseVars, runVars>>
notRules == <<dedupVars, mergeVars, resolveVars, batchVars, forgeVars, launchVars, javaVars, installVars, fabricVars, profileVars, phaseVars, runVars>>
notPhase == <<dedupVars, mergeVars, resolveVars, batchVars, forgeVars, launchVars, javaVars, installVars, fabricVars, profileVars, rulesVars, runVars>>
notRun == <<dedupVars, mergeVars, resolveVars, batchVars, forgeVars, launchVars, javaVars, installVars, fabricVars, profileVars, rulesVars, phaseVars>>

None == <<>>
Some(x) == <<x>>
IsSome(o) == o # <<>>
Unwrap(o) == o[1]

\* the values the variables of one part keep while another part runs
IdleDedup == libs = <<>> /\ deduped = None
IdleMerge == current_info = None /\ parent_info = None /\ merged = None
IdleResolve ==
    /\ manifest = {} /\ remote = <<>> /\ disk = <<>> /\ rstack = <<>>
    /\ rid = "" /\ rpc = "idle" /\ rret = None /\ requests = 0 /\ stage = "idle"
    /\ rpass = 0 /\ rfirst = None /\ rlog = <<>>
IdleBatch ==
    /\ batch = <<>> /\ tasks = <<>> /\ files = <<>> /\ wk = <<>> /\ error = None
    /\ done = 0 /\ batch_result = None /\ files0 = <<>> /\ stat = <<>> /\ late = <<>>
    /\ events = <<>>
IdleForge ==
    /\ forge_libs = <<>> /\ host = <<>> /\ jars = {} /\ library_map = <<>>
    /\ module_path_set = {} /\ final_classpath = <<>> /\ args_file = <<>> /\ fpc = "idle"
IdleLaunch ==
    /\ lpc = "idle" /\ fetch_caller = "" /\ url_i = 0 /\ last_err = <<>> /\ contacted = <<>>
    /\ fetch_ret = None /\ net_requests = 0 /\ origin = <<>> /\ local = <<>>
    /\ local0 = <<>> /\ todo = <<>> /\ launch_ret = None
IdleJava ==
    /\ mc_version = <<>> /\ target = None /\ java_env = <<>> /\ jpc = "idle"
    /\ required_java = 0 /\ java_ret = None /\ java_try = 0
IdleInstall ==
    /\ fmc = <<>> /\ fipc = "idle" /\ src_i = 0 /\ ftried = <<>> /\ flast_err = ""
    /\ forge_version = None /\ versions_dir = {} /\ fvariants = <<>> /\ install_ret = None
IdleFabric ==
    /\ fab_pc = "idle" /\ fab_info = <<>> /\ fab_meta = <<>> /\ fab_client = FALSE /\ fab_disk = {}
    /\ fab_queue = <<>> /\ fab_jars = <<>> /\ fab_java = None /\ fabric_ret = None
IdleProfile ==
    /\ fabric_child = None /\ fabric_parent = None /\ version_info = None
IdleRules ==
    /\ rule_list = None /\ rule_verdict = None
IdlePhase ==
    /\ ph_adapter = "" /\ ph_queue = <<>> /\ ph_tried = <<>> /\ ph_ret = None
IdleRun ==
    /\ run_pc = "idle" /\ run_env = <<>> /\ sink = <<>> /\ run_ret = None

Reverse(s) == [i \in 1..Len(s) |-> s[Len(s) + 1 - i]]
Range(s) == {s[i] : i \in 1..Len(s)}

RECURSIVE SeqsUpTo(_, _)
SeqsUpTo(S, n) ==
    IF n = 0 THEN {<<>>}
    ELSE LET shorter == SeqsUpTo(S, n - 1)
         IN shorter \cup {Append(s, x) : s \in {t \in shorter : Len(t) = n - 1}, x \in S}

(***************************************************************************)
(* Maven names                                                             *)
(***************************************************************************)
LibName(items, ext) == [items |-> items, ext |-> ext]

\* launch_logic.rs parse_maven_name: None below three items, the fourth item
\* is the classifier, the extension defaults to "jar".
parse_maven_name(name) ==
    IF Len(name.items) < 3 THEN None
    ELSE Some([group      |-> name.items[1],
               artifact   |-> name.items[2],
               version    |-> name.items[3],
               classifier |-> IF Len(name.items) > 3 THEN Some(name.items[4]) ELSE None,
               ext        |-> IF IsSome(name.ext) THEN Unwrap(name.ext) ELSE "jar"])

(***************************************************************************)
(* deduplicate_libraries                                                   *)
(***************************************************************************)
\* a deliberately wrong key: the classifier left out
dedup_key_no_classifier(lib) ==
    LET m == parse_maven_name(lib.name)
    IN IF IsSome(m) THEN <<"maven", Unwrap(m).group, Unwrap(m).artifact, "">>
       ELSE <<"name", lib.name>>

\* the HashMap key: "group:artifact:classifier" (classifier defaulting to the
\* empty string) for a parsable name, the whole name otherwise.  The three
\* items hold no ':' (they come from a split on ':'), so the formatted string
\* and the triple determine each other.
dedup_key(lib) ==
    LET m == parse_maven_name(lib.name)
    IN IF IsSome(m)
       THEN <<"maven", Unwrap(m).group, Unwrap(m).artifact,
              IF IsSome(Unwrap(m).classifier) THEN Unwrap(Unwrap(m).classifier) ELSE "">>
       ELSE <<"name", lib.name>>

\* the loop body over an already reversed list: push when the key is new
RECURSIVE dedup_scan(_, _, _)
dedup_scan(rest, seen, result) ==
    IF rest = <<>> THEN result
    ELSE LET lib == Head(rest)
             key == dedup_key(lib)
         IN IF key \in seen
            THEN dedup_scan(Tail(rest), seen, result)
            ELSE dedup_scan(Tail(rest), seen \cup {key}, Append(result, lib))

\* a deliberately wrong variant: forward scan, keeping the first entry
deduplicate_keep_first(ls) == dedup_scan(ls, {}, <<>>)

deduplicate_libraries(ls) == Reverse(dedup_scan(Reverse(ls), {}, <<>>))

(***************************************************************************)
(* VersionInfo and the merge of a child with its resolved parent           *)
(***************************************************************************)
ScalarFields == {"asset_index", "assets", "downloads", "java_version", "minecraft_arguments"}

VersionInfo(id, inherits, scalars, arguments, logging, libraries) ==
    [id                  |-> id,
     inherits_from       |-> inherits,
     main_class          |-> "Main",
     asset_index         |-> scalars["asset_index"],
     assets              |-> scalars["assets"],
     downloads           |-> scalars["downloads"],
     java_version        |-> scalars["java_version"],
     minecraft_arguments |-> scalars["minecraft_arguments"],
     arguments           |-> arguments,
     logging             |-> logging,
     libraries           |-> libraries]

\* a deliberately wrong variant: the child's arguments before the parent's
merge_arg_list_child_first(parent_list, child_list) ==
    IF IsSome(parent_list)
    THEN Some((IF IsSome(child_list) THEN Unwrap(child_list) ELSE <<>>) \o Unwrap(parent_list))
    ELSE child_list

\* lines 1331-1337 and 1339-1345: the parent's list, extended by the child's
merge_arg_list(parent_list, child_list) ==
    IF IsSome(parent_list)
    THEN Some(Unwrap(parent_list) \o (IF IsSome(child_list) THEN Unwrap(child_list) ELSE <<>>))
    ELSE child_list

\* lines 1326-1348
merge_arguments(parent_args, child_args) ==
    IF child_args = None THEN parent_args
    ELSE IF IsSome(parent_args)
         THEN Some([game |-> merge_arg_list(Unwrap(parent_args).game, Unwrap(child_args).game),
                    jvm  |-> merge_arg_list(Unwrap(parent_args).jvm, Unwrap(child_args).jvm)])
         ELSE child_args

fill_from_parent(child_value, parent_value) ==
    IF child_value = None THEN parent_value ELSE child_value

\* resolve_complete_version_info, lines 1320-1368: the body of
\* "if let Some(parent_id)" once the parent has been resolved
merge_with_parent(child, parent) ==
    [child EXCEPT
        !.libraries = deduplicate_libraries(parent.libraries \o child.libraries),
        !.arguments = merge_arguments(parent.arguments, child.arguments),
        !.minecraft_arguments = fill_from_parent(child.minecraft_arguments, parent.minecraft_arguments),
        !.asset_index = fill_from_parent(child.asset_index, parent.asset_index),
        !.assets = fill_from_parent(child.assets, parent.assets),
        !.downloads = fill_from_parent(child.downloads, parent.downloads),
        !.java_version = fill_from_parent(child.java_version, parent.java_version)]

(***************************************************************************)
(* Descriptor JSON and load_version_info                                   *)
(***************************************************************************)
Ok(x) == [ok |-> TRUE, val |-> Some(x), err |-> ""]
Err(e) == [ok |-> FALSE, val |-> None, err |-> e]

\* serde_json::to_string_pretty(&info): the JSON object of a VersionInfo
to_json(info) ==
    [id                 |-> info.id,
     inheritsFrom       |-> info.inherits_from,
     mainClass          |-> Some(info.main_class),
     assetIndex         |-> info.asset_index,
     assets             |-> info.assets,
     downloads          |-> info.downloads,
     javaVersion        |-> info.java_version,
     minecraftArguments |-> info.minecraft_arguments,
     arguments          |-> info.arguments,
     logging            |-> info.logging,
     libraries          |-> info.libraries]

\* serde_json::from_str::<VersionInfo>: mainClass is a required String, the
\* Option fields may be missing
from_json(doc) ==
    IF doc.mainClass = None THEN Err("missing field mainClass")
    ELSE Ok([id                  |-> doc.id,
             inherits_from       |-> doc.inheritsFrom,
             main_class          |-> Unwrap(doc.mainClass),
             asset_index         |-> doc.assetIndex,
             assets              |-> doc.assets,
             downloads           |-> doc.downloads,
             java_version        |-> doc.javaVersion,
             minecraft_arguments |-> doc.minecraftArguments,
             arguments           |-> doc.arguments,
             logging             |-> doc.logging,
             libraries           |-> doc.libraries])

\* A resolution that refuses a parent that is already being resolved.
AfterLoad_guarded(info) ==
    IF /\ IsSome(info.inherits_from)
       /\ Unwrap(info.inherits_from) \notin {info.id} \cup {rstack[i].id : i \in 1..Len(rstack)}
    THEN /\ rstack' = Append(rstack, info)
         /\ rid' = Unwrap(info.inherits_from)
         /\ rpc' = "load"
         /\ rret' = None
    ELSE /\ rret' = Some(IF IsSome(info.inherits_from) THEN Err("inheritance cycle") ELSE Ok(info))
         /\ rpc' = "return"
         /\ UNCHANGED <<rstack, rid>>

\* resolve_complete_version_info lines 1317-1318 and 1371 after a successful
\* load: recurse into the parent, or return the descriptor as it is
AfterLoad(info) ==
    IF IsSome(info.inherits_from)
    THEN /\ rstack' = Append(rstack, info)
         /\ rid' = Unwrap(info.inherits_from)
         /\ rpc' = "load"
         /\ rret' = None
    ELSE /\ rret' = Some(Ok(info))
         /\ rpc' = "return"
         /\ UNCHANGED <<rstack, rid>>

\* the "?" on a failed load: the error travels up
LoadFailed(e) ==
    /\ rret' = Some(Err(e))
    /\ rpc' = "return"
    /\ UNCHANGED <<rstack, rid>>

\* The call of load_version_info that ends is added to the log: the file
\* it found on disk, whether the manifest lists the id, the GETs it sent,
\* the descriptor it returned (None for Err), whether it changed the file.
logged(gets, result) ==
    rlog' = Append(rlog, [id |-> rid, had |-> disk[rid], listed |-> rid \in manifest,
                          gets |-> gets, ret |-> result.val, wrote |-> disk'[rid] # disk[rid]])

\* load_version_info returning without having written the descriptor.
cache_write_skipped(d, id, info) == d

\* A cache that stores the descriptor without its inheritsFrom link.
cache_write_unlinked(d, id, info) ==
    [d EXCEPT ![id] = Some(to_json([info EXCEPT !.inherits_from = None]))]

\* lines 1395-1399: the descriptor is serialized to versions/<id>/<id>.json
cache_write(d, id, info) == [d EXCEPT ![id] = Some(to_json(info))]

\* load_version_info, lines 1377-1379: the descriptor is on disk
LoadFromDisk ==
    /\ rpc = "load"
    /\ IsSome(disk[rid])
    /\ LET parsed == from_json(Unwrap(disk[rid]))
       IN IF parsed.ok THEN AfterLoad(Unwrap(parsed.val)) ELSE LoadFailed(parsed.err)
    /\ UNCHANGED <<manifest, remote, disk, requests, stage, rpass, rfirst, notResolve>>
    /\ logged(0, from_json(Unwrap(disk[rid])))

\* lines 1381-1382: not on disk and not in the manifest
LoadNotFound ==
    /\ rpc = "load"
    /\ disk[rid] = None
    /\ rid \notin manifest
    /\ LoadFailed("not found in manifest or locally")
    /\ UNCHANGED <<manifest, remote, disk, requests, stage, rpass, rfirst, notResolve>>
    /\ logged(0, Err("not found in manifest or locally"))

\* lines 1389-1391: the request fails
LoadFetchFails ==
    /\ rpc = "load"
    /\ disk[rid] = None
    /\ rid \in manifest
    /\ requests' = requests + 1
    /\ LoadFailed("Failed to fetch version info")
    /\ UNCHANGED <<manifest, remote, disk, stage, rpass, rfirst, notResolve>>
    /\ logged(1, Err("Failed to fetch version info"))

\* lines 1389-1400: the request succeeds; a body that parses is written to
\* disk and returned
LoadFetched ==
    /\ rpc = "load"
    /\ disk[rid] = None
    /\ rid \in manifest
    /\ requests' = requests + 1
    /\ LET parsed == from_json(remote[rid])
       IN IF parsed.ok
          THEN /\ disk' = cache_write(disk, rid, Unwrap(parsed.val))
               /\ AfterLoad(Unwrap(parsed.val))
          ELSE /\ LoadFailed("Failed to parse version info")
               /\ UNCHANGED disk
    /\ UNCHANGED <<manifest, remote, stage, rpass, rfirst, notResolve>>
    /\ logged(1, from_json(remote[rid]))

\* line 1318 returning into the waiting call: "?" passes an error on, a
\* resolved parent is merged (lines 1320-1368) and the result returned
ReturnToCaller ==
    /\ rpc = "return"
    /\ rstack # <<>>
    /\ LET caller == rstack[Len(rstack)]
           got == Unwrap(rret)
       IN rret' = IF got.ok THEN Some(Ok(merge_with_parent(caller, Unwrap(got.val))))
                  ELSE rret
    /\ rstack' = SubSeq(rstack, 1, Len(rstack) - 1)
    /\ UNCHANGED <<manifest, remote, disk, rid, rpc, requests, stage, rpass, rfirst, rlog, notResolve>>

\* vanilla_loader.rs line 37 (forge_loader.rs line 106): the outermost call
\* returns to the adapter; "?" ends the adapter on an error
ResolveReturns ==
    /\ rpc = "return"
    /\ rstack = <<>>
    /\ rpc' = "done"
    /\ stage' = IF Unwrap(rret).ok THEN "acquire" ELSE "failed"
    /\ UNCHANGED <<manifest, remote, disk, rstack, rid, rret, requests, rpass, rfirst, rlog, notResolve>>

\* vanilla_loader.rs lines 43-55 (forge_loader.rs lines 113-128): the client
\* jar is fetched only "if let Some(downloads)", the asset index and the
\* assets only "if let Some(asset_index_ref)"; a failed transfer ends the
\* adapter, an absent block is passed over
AdapterAcquire ==
    /\ stage = "acquire"
    /\ LET info == Unwrap(Unwrap(rret).val)
       IN \E client_ok, assets_ok \in BOOLEAN :
             stage' = IF /\ (IsSome(info.downloads) => client_ok)
                         /\ (IsSome(info.asset_index) => assets_ok)
                      THEN "libraries" ELSE "failed"
    /\ UNCHANGED <<manifest, remote, disk, rstack, rid, rpc, rret, requests, rpass, rfirst, rlog, notResolve>>

\* The version is launched again: the adapter calls
\* resolve_complete_version_info for the same id over the disk the first
\* launch left.
ResolveAgain ==
    /\ rpass = 1
    /\ stage \in {"libraries", "failed"}
    /\ rpass' = 2 /\ rfirst' = rret
    /\ rstack' = <<>>
    /\ rid' = "child"
    /\ rpc' = "load"
    /\ rret' = None
    /\ stage' = "resolve"
    /\ UNCHANGED <<manifest, remote, disk, requests, rlog, notResolve>>

(***************************************************************************)
(* Specification SpecDedup: deduplicate_libraries on every list of at most  *)
(* MaxLibs libraries of DedupPool.                                         *)
(***************************************************************************)
MaxLibs == 3

Lib(items, ext, path, rules) ==
    [name |-> LibName(items, ext), path |-> path, rules |-> rules]

\* same identity in two versions, with and without classifier, an empty
\* classifier item ("g:a:1:"), a second artifact, an explicit extension and
\* a name that does not parse
DedupPool ==
    { Lib(<<"g", "a", "1">>, None, None, None),
      Lib(<<"g", "a", "2">>, None, None, None),
      Lib(<<"g", "a", "1", "natives">>, None, None, None),
      Lib(<<"g", "a", "2", "natives">>, None, None, None),
      Lib(<<"g", "a", "3", "">>, None, None, None),
      Lib(<<"g", "b", "1">>, None, None, None),
      Lib(<<"g", "b", "2">>, Some("zip"), None, None),
      Lib(<<"x">>, None, None, None) }

InitDedup ==
    /\ libs \in SeqsUpTo(DedupPool, MaxLibs)
    /\ deduped = None
    /\ IdleMerge /\ IdleResolve /\ IdleBatch /\ IdleForge /\ IdleLaunch /\ IdleJava /\ IdleInstall /\ IdleFabric /\ IdleProfile /\ IdleRules /\ IdlePhase /\ IdleRun

Deduplicate ==
    /\ deduped = None
    /\ deduped' = Some(deduplicate_libraries(libs))
    /\ UNCHANGED <<libs, notDedup>>

NextDedup == Deduplicate

SpecDedup == InitDedup /\ [][NextDedup]_vars

\* ---- what the claims call a library's identity: (group, artifact,
\* classifier), an absent classifier and an empty one being the same; a name
\* that is no coordinate is its own identity
Identity(lib) ==
    IF Len(lib.name.items) >= 3
    THEN <<lib.name.items[1], lib.name.items[2],
           IF Len(lib.name.items) >= 4 THEN lib.name.items[4] ELSE "">>
    ELSE <<lib.name>>

IdentitySeq(s) == [i \in 1..Len(s) |-> Identity(s[i])]

IsFirstOccurrence(s, i) == \A j \in 1..(i - 1) : Identity(s[j]) # Identity(s[i])
IsLastOccurrence(s, i) == \A j \in (i + 1)..Len(s) : Identity(s[j]) # Identity(s[i])

Indices(s) == [i \in 1..Len(s) |-> i]

FirstOccurrenceOrder(s) ==
    LET kept == SelectSeq(Indices(s), LAMBDA i : IsFirstOccurrence(s, i))
    IN [n \in 1..Len(kept) |-> Identity(s[kept[n]])]

LastOccurrenceOrder(s) ==
    LET kept == SelectSeq(Indices(s), LAMBDA i : IsLastOccurrence(s, i))
    IN [n \in 1..Len(kept) |-> Identity(s[kept[n]])]

\* C2 (as claimed): the identities of the deduplicated list stand in the order
\* of their first occurrences in the input.
C2_FirstOccurrenceOrder ==
    IsSome(deduped) => IdentitySeq(Unwrap(deduped)) = FirstOccurrenceOrder(libs)

\* C2 (amended): the identities of the deduplicated list stand in the order of
\* their last occurrences in the input: each surviving entry keeps the place
\* of the last (child) entry of its identity.
C2_LastOccurrenceOrder ==
    IsSome(deduped) => IdentitySeq(Unwrap(deduped)) = LastOccurrenceOrder(libs)

\* an input where the two orders differ has been deduplicated
C2_Witness ==
    /\ IsSome(deduped)
    /\ FirstOccurrenceOrder(libs) # LastOccurrenceOrder(libs)

\* C3: the result holds exactly one entry per identity of the input, that
\* entry is the last input entry of the identity, and entries that differ in
\* classifier are both kept.
C3_OnePerIdentityLastSeen ==
    IsSome(deduped) =>
        LET out == Unwrap(deduped)
        IN /\ {Identity(out[i]) : i \in 1..Len(out)} = {Identity(libs[i]) : i \in 1..Len(libs)}
           /\ \A i, j \in 1..Len(out) : Identity(out[i]) = Identity(out[j]) => i = j
           /\ \A i \in 1..Len(out) :
                 \E k \in 1..Len(libs) : IsLastOccurrence(libs, k) /\ libs[k] = out[i]

\* a deduplicated input with two versions of one identity and, beside them, the
\* same group and artifact under another classifier
C3_Witness ==
    /\ IsSome(deduped)
    /\ \E i, j, k \in 1..Len(libs) :
          /\ i < j
          /\ Identity(libs[i]) = Identity(libs[j]) /\ libs[i] # libs[j]
          /\ Len(libs[k].name.items) >= 3 /\ Len(libs[i].name.items) >= 3
          /\ libs[k].name.items[1] = libs[i].name.items[1]
          /\ libs[k].name.items[2] = libs[i].name.items[2]
          /\ Identity(libs[k]) # Identity(libs[i])

(***************************************************************************)
(* Specification SpecMerge: one merge step on every pair of a child and a   *)
(* resolved parent drawn from DescriptorsOf.                               *)
(***************************************************************************)
MaxArgs == 2

\* the argument tokens of descriptor id on one side: "id.game.1", ...
ArgTokens(id, side) ==
    [i \in 1..MaxArgs |-> <<id, side, i>>]

ArgumentChoices(id) ==
    {None} \cup
    { Some([game |-> g, jvm |-> j]) :
        g \in {None, Some(ArgTokens(id, "game"))},
        j \in {None, Some(ArgTokens(id, "jvm"))} }

\* every way of having or lacking each scalar; a present value names the
\* descriptor that declared it
ScalarChoices(id) ==
    [ScalarFields -> {None, Some(id)}]

DescriptorsOf(id, inherits, libraries) ==
    { VersionInfo(id, inherits, sc, ar, None, libraries) :
        sc \in ScalarChoices(id), ar \in ArgumentChoices(id) }

ParentLibs == << Lib(<<"g", "a", "1">>, None, None, None),
                 Lib(<<"g", "b", "1">>, None, None, None) >>
ChildLibs == << Lib(<<"g", "a", "2">>, None, None, None) >>

InitMerge ==
    /\ current_info \in {Some(d) : d \in DescriptorsOf("child", Some("parent"), ChildLibs)}
    /\ parent_info \in {Some(d) : d \in DescriptorsOf("parent", None, ParentLibs)}
    /\ merged = None
    /\ IdleDedup /\ IdleResolve /\ IdleBatch /\ IdleForge /\ IdleLaunch /\ IdleJava /\ IdleInstall /\ IdleFabric /\ IdleProfile /\ IdleRules /\ IdlePhase /\ IdleRun

Merge ==
    /\ merged = None
    /\ merged' = Some(merge_with_parent(Unwrap(current_info), Unwrap(parent_info)))
    /\ UNCHANGED <<current_info, parent_info, notMerge>>

NextMerge == Merge

SpecMerge == InitMerge /\ [][NextMerge]_vars

\* the argument list of one side, an absent list being the empty one
ArgList(info, side) ==
    IF info.arguments = None THEN <<>>
    ELSE IF Unwrap(info.arguments)[side] = None THEN <<>>
         ELSE Unwrap(Unwrap(info.arguments)[side])

\* C4: after a merge every scalar field holds the child's value when the child
\* has one and the parent's otherwise, and each argument list is the parent's
\* list followed by the child's.
C4_MergeRule ==
    IsSome(merged) =>
        LET c == Unwrap(current_info)
            p == Unwrap(parent_info)
            m == Unwrap(merged)
        IN /\ \A f \in ScalarFields : m[f] = IF IsSome(c[f]) THEN c[f] ELSE p[f]
           /\ \A side \in {"game", "jvm"} :
                 ArgList(m, side) = ArgList(p, side) \o ArgList(c, side)

\* a merge where the child lacks a scalar the parent has, has another one
\* itself, and both sides bring game arguments
C4_Witness ==
    /\ IsSome(merged)
    /\ Unwrap(current_info).asset_index = None /\ IsSome(Unwrap(parent_info).asset_index)
    /\ IsSome(Unwrap(current_info).downloads) /\ IsSome(Unwrap(parent_info).downloads)
    /\ ArgList(Unwrap(current_info), "game") # <<>>
    /\ ArgList(Unwrap(parent_info), "game") # <<>>

(***************************************************************************)
(* Specification SpecResolve: an adapter resolves "child" over a world of   *)
(* three descriptors (child, mid, vanilla), some cached, some listed.      *)
(***************************************************************************)
AllIds == {"child", "mid", "vanilla"}

\* which scalars a descriptor declares: all, none, or one of two halves
ScalarShapes ==
    { ScalarFields, {},
      {"asset_index", "assets", "minecraft_arguments"},
      {"downloads", "java_version"} }

ResolveDescriptors(id, inherits) ==
    { VersionInfo(id, inherits,
                  [f \in ScalarFields |-> IF f \in shape THEN Some(id) ELSE None],
                  ar, None,
                  << Lib(<<"g", "a", id>>, None, None, None),
                     Lib(<<"g", id, "1">>, None, None, None) >>) :
        shape \in ScalarShapes,
        ar \in {None, Some([game |-> Some(ArgTokens(id, "game")),
                            jvm |-> Some(ArgTokens(id, "jvm"))])} }

\* the JSON a server or the disk may hold for id: a well-formed descriptor,
\* or one without mainClass
JsonDocs(id, inherits) ==
    LET good == {to_json(d) : d \in ResolveDescriptors(id, inherits)}
    IN good \cup {[to_json(CHOOSE d \in ResolveDescriptors(id, inherits) : TRUE)
                      EXCEPT !.mainClass = None]}

\* the inheritsFrom links: a three-level chain, a two-level one, none
InheritChoices ==
    { [child |-> Some("mid"), mid |-> Some("vanilla"), vanilla |-> None],
      [child |-> Some("vanilla"), mid |-> Some("vanilla"), vanilla |-> None],
      [child |-> None, mid |-> None, vanilla |-> None] }

InitResolve ==
    /\ manifest \in {{"vanilla"}, AllIds}
    /\ \E inh \in InheritChoices :
          remote \in [child : JsonDocs("child", inh.child),
                      mid : JsonDocs("mid", inh.mid),
                      vanilla : JsonDocs("vanilla", inh.vanilla)]
    /\ \E cached \in {{}, {"child", "mid"}, AllIds} :
          disk = [i \in AllIds |-> IF i \in cached THEN Some(remote[i]) ELSE None]
    /\ rstack = <<>>
    /\ rid = "child"
    /\ rpc = "load"
    /\ rret = None
    /\ requests = 0
    /\ stage = "resolve"
    /\ rpass = 1 /\ rfirst = None
    /\ rlog = <<>>
    /\ IdleDedup /\ IdleMerge /\ IdleBatch /\ IdleForge /\ IdleLaunch /\ IdleJava /\ IdleInstall /\ IdleFabric /\ IdleProfile /\ IdleRules /\ IdlePhase /\ IdleRun

NextResolve ==
    \/ LoadFromDisk \/ LoadNotFound \/ LoadFetchFails \/ LoadFetched
    \/ ReturnToCaller \/ ResolveReturns \/ AdapterAcquire \/ ResolveAgain

SpecResolve == InitResolve /\ [][NextResolve]_vars

\* C5 (as claimed): once resolution has returned a descriptor to the adapter,
\* the descriptor has its client download block, its main class and its asset
\* index; the adapter never goes on without one of them.
C5_ResolvedDescriptorComplete ==
    stage \in {"acquire", "libraries"} =>
        LET info == Unwrap(Unwrap(rret).val)
        IN /\ IsSome(info.downloads)
           /\ IsSome(info.asset_index)
           /\ info.main_class # ""

\* C17: load_version_info returns the descriptor of the file on disk, with
\* no request, when the file exists; otherwise it fetches the descriptor of
\* the manifest entry and writes it to disk, so that every later call for
\* the id finds it there and sends no request; for an id that is neither on
\* disk nor in the manifest it returns an error and writes nothing.
C17_CacheThenCatalog ==
    \A i \in 1..Len(rlog) :
        LET e == rlog[i]
        IN /\ IsSome(e.had) =>
                 /\ e.gets = 0
                 /\ ~e.wrote
                 /\ IsSome(e.ret) => to_json(Unwrap(e.ret)) = Unwrap(e.had)
           /\ (e.had = None /\ e.listed /\ IsSome(e.ret)) =>
                 /\ e.gets = 1
                 /\ e.wrote
                 /\ \A j \in (i + 1)..Len(rlog) :
                       rlog[j].id = e.id =>
                          /\ IsSome(rlog[j].had)
                          /\ rlog[j].gets = 0
                          /\ rlog[j].ret = e.ret
           /\ (e.had = None /\ ~e.listed) =>
                 /\ e.ret = None
                 /\ e.gets = 0
                 /\ ~e.wrote

\* The first launch fetched the descriptor of an id and the second launch
\* read it from disk.
C17_Witness ==
    \E i, j \in 1..Len(rlog) :
        /\ i < j
        /\ rlog[i].id = rlog[j].id
        /\ rlog[i].had = None
        /\ IsSome(rlog[i].ret)
        /\ rlog[j].gets = 0
        /\ rlog[j].ret = rlog[i].ret

Paths == {"p1", "p2"}
Workers == {"w1", "w2"}
MaxTasks == 3

Kinds == {"libraries", "assets", "mods"}

\* `let max_retries = 3` of download_file, and the `while attempts < 3` of a
\* mods worker around it.
max_retries == 3
mod_attempts == 3

TaskIds == 1..Len(batch.paths)
task_path(t) == batch.paths[t]

\* Libraries queue (url, path, hash, extract): the native bundle is the task
\* whose extract flag is set.  Assets and mods are never extracted.
task_extract(t) == batch.kind = "libraries" /\ task_path(t) = "p2"

\* verify_hash: the file can be opened and its sha1 is the expected one.
verify_hash(fs, p) == fs[p] = "good"

\* A test that accepts an existing file only when a hash was given and matches.
already_valid_hash_required(fs, p, hashed) ==
    /\ fs[p] # "absent"
    /\ hashed
    /\ verify_hash(fs, p)

\* The test download_file makes before any network call: the file exists and,
\* when a hash was given, matches it.
already_valid(fs, p, hashed) ==
    /\ fs[p] # "absent"
    /\ (hashed => verify_hash(fs, p))

\* A removal that leaves the file where it is.
remove_file_noop(fs, p) == fs

\* fs::remove_file, taken to succeed.
remove_file(fs, p) == [fs EXCEPT ![p] = "absent"]

IdleWorker ==
    [pc |-> "unspawned", task |-> 0, attempt |-> 0, outer |-> 0, last_error |-> "", current |-> 0,
     holds |-> {}]

\* download_file returned Ok: a library with the extract flag is unpacked next,
\* every other task is counted.
call_ok(w, t) ==
    [w EXCEPT !.pc = IF task_extract(t) THEN "extract" ELSE "count"]

\* download_file returned Err.  A mods worker calls it again while
\* attempts < 3; libraries and assets workers record the error at once.
call_err(w, cls) ==
    IF batch.kind = "mods"
    THEN [w EXCEPT !.pc = IF w.outer + 1 < mod_attempts THEN "entry" ELSE "record",
                   !.outer = w.outer + 1, !.last_error = cls]
    ELSE [w EXCEPT !.pc = "record", !.last_error = cls]

\* The end of one iteration of `for attempt in 1..=max_retries` that did not
\* return: the next attempt, or the final Err after the last one.
attempt_failed_two_tries(w, cls) ==
    IF w.attempt < max_retries - 1
    THEN [w EXCEPT !.pc = "send", !.attempt = w.attempt + 1, !.last_error = cls]
    ELSE call_err(w, cls)

attempt_failed(w, cls) ==
    IF w.attempt < max_retries
    THEN [w EXCEPT !.pc = "send", !.attempt = w.attempt + 1, !.last_error = cls]
    ELSE call_err(w, cls)

\* What one GET and the copy of its body can do: "fail" is a network error, a
\* non-success status or a file that cannot be created (nothing written);
\* "partial" is a write error during the copy (a truncated file stays);
\* "good" and "bad" are a complete body with, or without, the expected sha1.
AllOutcomes == {"fail", "partial", "bad", "good"}
Outcomes(hashed) == IF hashed THEN batch.net ELSE batch.net \ {"bad"}

\* The batch function up to the spawning of its workers: an empty task list
\* returns Ok at once.
StartBatch ==
    /\ batch_result = None
    /\ \A self \in Workers : wk[self].pc = "unspawned"
    /\ IF batch.paths = <<>>
       THEN /\ batch_result' = Some([ok |-> TRUE, err |-> None])
            /\ wk' = wk
       ELSE /\ wk' = [self \in Workers |-> [wk[self] EXCEPT !.pc = "check"]]
            /\ batch_result' = batch_result
    /\ UNCHANGED <<batch, tasks, files, error, done, files0, stat, late, events, notBatch>>

\* A worker that goes on to the queue whatever the error slot holds.
CheckErrorIgnored ==
    \E self \in Workers :
        /\ wk[self].pc = "check"
        /\ wk' = [wk EXCEPT ![self].pc = "pop"]
        /\ UNCHANGED <<batch, tasks, files, error, done, batch_result, files0, stat, late, events, notBatch>>

\* `mutex.lock()` returns when no other thread holds the guard of the mutex.
lock_free(mutex, self) == \A other \in Workers \ {self} : mutex \notin wk[other].holds

\* A queue guard that lives on after the task was taken.
guards_after_pop_kept == {"tasks"}

\* The guards alive after `let task = { let mut guard = tasks.lock()..;
\* guard.pop_front() };`: the guard ends with the block.
guards_after_pop == {}

\* `if error.lock()...is_some() { break; }`: the guard is a temporary of
\* the condition.
CheckError ==
    \E self \in Workers :
        /\ wk[self].pc = "check"
        /\ lock_free("error", self)
        /\ wk' = [wk EXCEPT ![self].pc = IF IsSome(error) THEN "exit" ELSE "pop"]
        /\ UNCHANGED <<batch, tasks, files, error, done, batch_result, files0, stat, late, events, notBatch>>

\* `guard.pop_front()`: None ends the worker.
PopTask ==
    \E self \in Workers :
        /\ wk[self].pc = "pop"
        /\ lock_free("tasks", self)
        /\ IF tasks = <<>>
           THEN /\ wk' = [wk EXCEPT ![self].pc = "exit"]
                /\ UNCHANGED <<tasks, stat, late>>
           ELSE /\ wk' = [wk EXCEPT ![self] = [pc |-> "entry", task |-> Head(tasks),
                                               attempt |-> 0, outer |-> 0, last_error |-> "",
                                               current |-> 0,
                                               holds |-> guards_after_pop]]
                /\ tasks' = Tail(tasks)
                /\ stat' = [stat EXCEPT ![Head(tasks)].res = "running"]
                /\ late' = [late EXCEPT ![self] = IF IsSome(error) THEN @ + 1 ELSE @]
        /\ UNCHANGED <<batch, files, error, done, batch_result, files0, events, notBatch>>

\* download_file, before the retry loop.
DownloadEntry ==
    \E self \in Workers :
        LET w == wk[self]
            t == w.task
        IN /\ w.pc = "entry"
           /\ IF already_valid(files, task_path(t), batch.hashed)
              THEN /\ wk' = [wk EXCEPT ![self] = call_ok(w, t)]
                   /\ stat' = [stat EXCEPT ![t].dl = "ok"]
              ELSE /\ wk' = [wk EXCEPT ![self] = [w EXCEPT !.pc = "send", !.attempt = 1]]
                   /\ stat' = stat
           /\ UNCHANGED <<batch, tasks, files, error, done, batch_result, files0, late, events, notBatch>>

\* `client.get(url).send()`: the request goes out.
SendGet ==
    \E self \in Workers :
        LET w == wk[self]
        IN /\ w.pc = "send"
           /\ wk' = [wk EXCEPT ![self].pc = "receive"]
           /\ stat' = [stat EXCEPT ![w.task].gets = @ + 1]
           /\ UNCHANGED <<batch, tasks, files, error, done, batch_result, files0, late, events, notBatch>>

\* The response arrives and its body is copied to the destination.
Receive ==
    \E self \in Workers :
        LET w == wk[self]
            t == w.task
            p == task_path(t)
        IN /\ w.pc = "receive"
           /\ \E outcome \in Outcomes(batch.hashed) :
                CASE outcome = "fail" ->
                       LET n == attempt_failed(w, "net")
                       IN /\ wk' = [wk EXCEPT ![self] = n]
                          /\ files' = files
                          /\ stat' = [stat EXCEPT ![t].dl = IF n.pc = "record" THEN "err" ELSE @]
                  [] outcome = "partial" ->
                       LET n == attempt_failed(w, "write")
                       IN /\ wk' = [wk EXCEPT ![self] = n]
                          /\ files' = [files EXCEPT ![p] = "bad"]
                          /\ stat' = [stat EXCEPT ![t].dl = IF n.pc = "record" THEN "err" ELSE @]
                  [] OTHER ->
                       /\ files' = [files EXCEPT ![p] = outcome]
                       /\ IF batch.hashed
                          THEN /\ wk' = [wk EXCEPT ![self].pc = "verify"]
                               /\ stat' = stat
                          ELSE /\ wk' = [wk EXCEPT ![self] = call_ok(w, t)]
                               /\ stat' = [stat EXCEPT ![t].dl = "ok", ![t].okget = TRUE]
           /\ UNCHANGED <<batch, tasks, error, done, batch_result, files0, late, events, notBatch>>

\* `if verify_hash(path, expected_hash) { return Ok(()) } else { last_error = .. }`
VerifyDownloaded ==
    \E self \in Workers :
        LET w == wk[self]
            t == w.task
        IN /\ w.pc = "verify"
           /\ IF verify_hash(files, task_path(t))
              THEN /\ wk' = [wk EXCEPT ![self] = call_ok(w, t)]
                   /\ stat' = [stat EXCEPT ![t].dl = "ok", ![t].okget = TRUE]
              ELSE /\ wk' = [wk EXCEPT ![self] = [w EXCEPT !.pc = "remove", !.last_error = "hash"]]
                   /\ stat' = [stat EXCEPT ![t].mism = @ + 1]
           /\ UNCHANGED <<batch, tasks, files, error, done, batch_result, files0, late, events, notBatch>>

\* `let _ = fs::remove_file(path)` and the end of the attempt.
RemoveBadFile ==
    \E self \in Workers :
        LET w == wk[self]
            t == w.task
            n == attempt_failed(w, "hash")
        IN /\ w.pc = "remove"
           /\ files' = remove_file(files, task_path(t))
           /\ wk' = [wk EXCEPT ![self] = n]
           /\ stat' = [stat EXCEPT ![t].dl = IF n.pc = "record" THEN "err" ELSE @]
           /\ UNCHANGED <<batch, tasks, error, done, batch_result, files0, late, events, notBatch>>

\* `extract_natives(&path, &natives_dir)`: fails when the jar cannot be
\* opened, and may fail on any entry.
ExtractNatives ==
    \E self \in Workers :
        LET w == wk[self]
        IN /\ w.pc = "extract"
           /\ \E extracted \in IF files[task_path(w.task)] = "absent" THEN {FALSE} ELSE BOOLEAN :
                wk' = [wk EXCEPT ![self] = IF extracted THEN [w EXCEPT !.pc = "count"]
                                           ELSE [w EXCEPT !.pc = "record", !.last_error = "extract"]]
           /\ UNCHANGED <<batch, tasks, files, error, done, batch_result, files0, stat, late, events, notBatch>>

\* A failure that is never stored in the slot.
record_error_dropped(slot, e) == slot

\* `if guard.is_none() { *guard = Some(e); }`: the slot keeps the first
\* failure stored in it.
record_error(slot, e) == IF slot = None THEN Some(e) ELSE slot

\* `if let Ok(mut guard) = error.lock() { .. }` and `break`; the guard ends
\* with the `if let` block.
RecordError ==
    \E self \in Workers :
        LET w == wk[self]
        IN /\ w.pc = "record"
           /\ lock_free("error", self)
           /\ error' = record_error(error, [task |-> w.task, class |-> w.last_error])
           /\ wk' = [wk EXCEPT ![self].pc = "exit"]
           /\ stat' = [stat EXCEPT ![w.task].res = "failed"]
           /\ UNCHANGED <<batch, tasks, files, done, batch_result, files0, late, events, notBatch>>

\* The cadence of the progress events and the sub-range of percent of each
\* batch: libraries every 10 into 20..50, assets every 50 into 60..75, mods
\* every 5 into 80..90.
progress_every(kind) ==
    CASE kind = "libraries" -> 10 [] kind = "assets" -> 50 [] kind = "mods" -> 5
percent_base(kind) ==
    CASE kind = "libraries" -> 20 [] kind = "assets" -> 60 [] kind = "mods" -> 80
percent_span(kind) ==
    CASE kind = "libraries" -> 30 [] kind = "assets" -> 15 [] kind = "mods" -> 10

total_tasks == Len(batch.paths)

\* `current % K == 0 || current == total`
progress_due(current) ==
    current % progress_every(batch.kind) = 0 \/ current = total_tasks

\* `base + ((current * span) / total) as u8`
progress_percent(current) ==
    percent_base(batch.kind) + (((current * percent_span(batch.kind)) \div total_tasks) % 256)

\* `let current = done.fetch_add(1, SeqCst) + 1`; the worker goes on to emit
\* when an event is due and back to the top of the loop otherwise.
CountDone ==
    \E self \in Workers :
        LET w == wk[self]
            current == done + 1
        IN /\ w.pc = "count"
           /\ done' = current
           /\ wk' = [wk EXCEPT ![self] = IF progress_due(current)
                                         THEN [w EXCEPT !.pc = "emit", !.current = current]
                                         ELSE [w EXCEPT !.pc = "check"]]
           /\ stat' = [stat EXCEPT ![w.task].res = "ok"]
           /\ UNCHANGED <<batch, tasks, files, error, batch_result, files0, late, events, notBatch>>

\* `emit(&app, &instance_id, stage, percent, &msg)` with the value of
\* `current` the worker took from the counter.
EmitProgress ==
    \E self \in Workers :
        LET w == wk[self]
        IN /\ w.pc = "emit"
           /\ events' = Append(events, progress_percent(w.current))
           /\ wk' = [wk EXCEPT ![self] = [w EXCEPT !.pc = "check", !.current = 0]]
           /\ UNCHANGED <<batch, tasks, files, error, done, batch_result, files0, stat, late, notBatch>>

\* Every handle joined: `return Err(err)` when the slot holds one, Ok otherwise.
JoinBatch ==
    /\ batch_result = None
    /\ \A self \in Workers : wk[self].pc = "exit"
    /\ batch_result' = Some([ok |-> error = None, err |-> error])
    /\ UNCHANGED <<batch, tasks, files, wk, error, done, files0, stat, late, events, notBatch>>

\* The batches explored: every outcome of a GET for the short task lists,
\* and servers that either fail or deliver the right body for the others.
ShortLists == {<<>>, <<"p1">>, <<"p1", "p1">>, <<"p1", "p2">>}
LongList == [i \in 1..MaxTasks |-> IF i % 2 = 1 THEN "p1" ELSE "p2"]

\* A batch one task longer than the cadence of its progress events, every
\* file already on disk.
CadenceList(kind) == [i \in 1..(progress_every(kind) + 1) |-> IF i % 2 = 1 THEN "p1" ELSE "p2"]

InitBatch ==
    /\ \E k \in Kinds, h \in BOOLEAN, net \in {AllOutcomes, {"fail", "good"}, {"good"}} :
       \E ps \in ShortLists \cup {LongList, CadenceList(k)} :
         /\ k = "assets" => h
         /\ k = "mods" => ~h
         /\ ps \in ShortLists <=> net = AllOutcomes
         /\ ps = CadenceList(k) <=> net = {"good"}
         /\ batch = [kind |-> k, paths |-> ps, hashed |-> h, net |-> net]
    /\ tasks = [i \in 1..Len(batch.paths) |-> i]
    /\ files0 \in [Paths -> {"absent", "good", "bad"}]
    /\ \A p \in Paths \ Range(batch.paths) : files0[p] = "absent"
    /\ batch.net = {"fail", "good"} => \A p \in Paths : files0[p] = "absent"
    /\ batch.net = {"good"} => \A p \in Paths : files0[p] = "good"
    /\ files = files0
    /\ wk = [self \in Workers |-> IdleWorker]
    /\ error = None
    /\ done = 0
    /\ batch_result = None
    /\ stat = [t \in 1..Len(batch.paths) |->
                 [gets |-> 0, mism |-> 0, okget |-> FALSE, dl |-> "none", res |-> "queued"]]
    /\ late = [self \in Workers |-> 0]
    /\ events = <<>>
    /\ IdleDedup /\ IdleMerge /\ IdleResolve /\ IdleForge /\ IdleLaunch /\ IdleJava /\ IdleInstall /\ IdleFabric /\ IdleProfile /\ IdleRules /\ IdlePhase /\ IdleRun

NextBatch ==
    \/ StartBatch
    \/ CheckError
    \/ PopTask
    \/ DownloadEntry
    \/ SendGet
    \/ Receive
    \/ VerifyDownloaded
    \/ RemoveBadFile
    \/ ExtractNatives
    \/ RecordError
    \/ CountDone
    \/ EmitProgress
    \/ JoinBatch

SpecBatch == InitBatch /\ [][NextBatch]_vars

Returned == batch_result # None
Result == Unwrap(batch_result)
ErrorFrom(t) == IsSome(error) /\ Unwrap(error).task = t

\* The file of task t was on disk when the batch started and, where the task
\* carries a hash, had that hash.
InitiallyValid(t) ==
    /\ files0[task_path(t)] # "absent"
    /\ (batch.hashed => files0[task_path(t)] = "good")

\* C6: a task whose destination file exists when the batch starts, and matches
\* the expected hash if the task has one, causes no GET and is never
\* reported as failed, and the file stays as it was.
C6_ValidFileSkipsNetwork ==
    \A t \in TaskIds :
        InitiallyValid(t) =>
            /\ stat[t].gets = 0
            /\ stat[t].dl # "err"
            /\ files[task_path(t)] = files0[task_path(t)]

\* A hashed batch has returned Ok after skipping a task whose file was already
\* valid, while another task of the same batch went to the network.
C6_Witness ==
    /\ batch # <<>> /\ batch.hashed /\ Returned /\ Result.ok
    /\ \E t \in TaskIds : InitiallyValid(t) /\ stat[t].res = "ok" /\ stat[t].gets = 0
    /\ \E u \in TaskIds : stat[u].gets > 0

\* C7: in every batch (libraries, assets, mods) no task causes more than
\* three GETs.
C7_AtMostThreeGets ==
    \A t \in TaskIds : stat[t].gets <= 3

AlwaysMismatched(t) ==
    batch.kind = "libraries" /\ stat[t].gets = 3 /\ stat[t].mism = 3

C10_NoDequeueAfterError ==
    /\ \A self \in Workers : late[self] = 0
    /\ Returned => Result.err = error

\* C10: once a failure is in the error slot each worker dequeues at most one
\* further task (a worker that had passed its check of the slot before the
\* failure was recorded), the slot keeps the first error recorded, and the
\* batch returns it.
C10_AtMostOneLateDequeue ==
    /\ [](\A self \in DOMAIN late : late[self] <= 1)
    /\ [](Returned => Result.err = error)
    /\ [][IsSome(error) => error' = error]_vars

\* A worker dequeued a task after the failure of another was recorded, and the
\* batch returned that failure.
C10_Witness ==
    /\ batch # <<>> /\ Returned /\ ~Result.ok
    /\ \E self \in Workers : late[self] = 1
    /\ \E t \in TaskIds : ErrorFrom(t) /\ stat[t].res = "failed"

\* C11: within one batch the percent values of the progress events never
\* decrease in the order in which the sink receives them.
C11_PercentMonotone ==
    \A i \in 1..(Len(events) - 1) : events[i] <= events[i + 1]

\* ---------------------------------------------------------------------
\* build_forge_command: the module path and the classpath
\* ---------------------------------------------------------------------

\* A path below the libraries directory: its directories, the parts of its
\* file name (artifact, version, classifier, extension), and whether it is
\* spelled with capital letters.
Path(dir, file, upper) == [dir |-> dir, file |-> file, upper |-> upper]

\* forge_loader.rs maven_path: group/artifact/version/artifact-version[-classifier].ext,
\* an empty classifier adding nothing to the file name.
maven_path(m) ==
    Some(Path(<<m.group, m.artifact, m.version>>,
              <<m.artifact, m.version,
                IF IsSome(m.classifier) THEN Unwrap(m.classifier) ELSE "",
                m.ext>>,
              FALSE))

\* normalize_path_for_comparison: lower case on Windows only.
normalize_path_for_comparison(p) ==
    IF host.os = "windows" THEN [p EXCEPT !.upper = FALSE] ELSE p

\* Path::exists: the file system of Windows ignores the case of letters as
\* the normalization does.
path_exists(fs, p) == normalize_path_for_comparison(p) \in fs

\* utils.rs check_rules: no rules or an empty list allow; otherwise the last
\* rule whose os clause matches the host decides, and nothing matching denies.
rule_matches(rule) ==
    IsSome(rule.os) =>
        /\ (IsSome(Unwrap(rule.os).name) => Unwrap(Unwrap(rule.os).name) = host.os)
        /\ (IsSome(Unwrap(rule.os).arch) => Unwrap(Unwrap(rule.os).arch) = host.arch)

RECURSIVE rules_fold(_, _)
rules_fold(rules, allowed) ==
    IF rules = <<>> THEN allowed
    ELSE rules_fold(Tail(rules),
                    IF rule_matches(Head(rules)) THEN Head(rules).action = "allow"
                    ELSE allowed)

\* A verdict where any matching rule that allows is enough.
check_rules_any_allow(rules) ==
    IF IsSome(rules)
    THEN IF Unwrap(rules) = <<>> THEN TRUE
         ELSE \E i \in 1..Len(Unwrap(rules)) :
                 rule_matches(Unwrap(rules)[i]) /\ Unwrap(rules)[i].action = "allow"
    ELSE TRUE

check_rules(rules) ==
    IF IsSome(rules)
    THEN IF Unwrap(rules) = <<>> THEN TRUE ELSE rules_fold(Unwrap(rules), FALSE)
    ELSE TRUE

\* `file_name.contains(word)` on the lower-cased file name.  The names
\* explored hold a word of the lists below only as a whole part of the name.
file_name_contains(p, word) == \E i \in 1..3 : p.file[i] = word

NativeClassifiers == {"natives", "natives-linux", "natives-windows"}

forge_classpath_blacklist ==
    {"asm", "asm-commons", "asm-tree", "asm-util", "asm-analysis",
     "java-objc-bridge", "jna", "oshi-core",
     "sponge-mixin", "mixin", "jakarta.activation", "jakarta.xml.bind"}

ModulePathArtifacts == {"securejarhandler", "modlauncher", "bootstraplauncher"}

is_bootstrap(m) == m.group = "cpw.mods" /\ m.artifact = "bootstraplauncher"

map_insert(map, k, v) == [x \in DOMAIN map \cup {k} |-> IF x = k THEN v ELSE map[x]]

\* The index from path to coordinate: the maven path of every parsable
\* library and, when present, downloads.artifact.path; a later insert under
\* the same key replaces the earlier one.
RECURSIVE build_library_map(_, _)
build_library_map(ls, map) ==
    IF ls = <<>> THEN map
    ELSE LET lib == Head(ls)
             m == parse_maven_name(lib.name)
         IN IF ~IsSome(m) THEN build_library_map(Tail(ls), map)
            ELSE LET map1 == map_insert(map,
                                 normalize_path_for_comparison(Unwrap(maven_path(Unwrap(m)))),
                                 Unwrap(m))
                     map2 == IF IsSome(lib.path)
                             THEN map_insert(map1, normalize_path_for_comparison(Unwrap(lib.path)),
                                             Unwrap(m))
                             ELSE map1
                 IN build_library_map(Tail(ls), map2)

MapValues(map) == {map[k] : k \in DOMAIN map}

\* A module path that leaves the bootstrap launcher out.
forced_module_paths_without_bootstrap(map) ==
    {Unwrap(maven_path(m)) : m \in {v \in MapValues(map) :
                                       /\ v.group = "cpw.mods"
                                       /\ v.artifact \in ModulePathArtifacts
                                       /\ ~is_bootstrap(v)}}

\* The three cpw.mods coordinates forced onto the module path.
forced_module_paths(map) ==
    {Unwrap(maven_path(m)) : m \in {v \in MapValues(map) :
                                       v.group = "cpw.mods" /\ v.artifact \in ModulePathArtifacts}}

module_path_libs == {normalize_path_for_comparison(v) : v \in module_path_set}

module_path_artifacts ==
    {<<library_map[p].group, library_map[p].artifact>> :
        p \in module_path_libs \cap DOMAIN library_map}

\* The classpath entries the descriptor asks for: libraries allowed by their
\* rules, by downloads.artifact.path or else by maven path unless the
\* classifier names natives.
RECURSIVE classpath_entries(_)
classpath_entries(ls) ==
    IF ls = <<>> THEN <<>>
    ELSE LET lib == Head(ls)
             m == parse_maven_name(lib.name)
             rest == classpath_entries(Tail(ls))
         IN IF ~check_rules(lib.rules) THEN rest
            ELSE IF IsSome(lib.path) THEN <<Unwrap(lib.path)>> \o rest
            ELSE IF IsSome(m) /\ ~(IsSome(Unwrap(m).classifier)
                                   /\ Unwrap(Unwrap(m).classifier) \in NativeClassifiers)
                 THEN <<Unwrap(maven_path(Unwrap(m)))>> \o rest
                 ELSE rest

is_on_module_path(entry) == normalize_path_for_comparison(entry) \in module_path_libs

\* A filter that never sees a conflict of coordinates.
is_artifact_conflict_never(entry) == FALSE

is_artifact_conflict(entry) ==
    LET n == normalize_path_for_comparison(entry)
    IN IF n \in DOMAIN library_map
       THEN <<library_map[n].group, library_map[n].artifact>> \in module_path_artifacts
       ELSE FALSE

is_blacklisted(entry) == \E b \in forge_classpath_blacklist : file_name_contains(entry, b)

force_include_bootstrap(entry) ==
    LET n == normalize_path_for_comparison(entry)
    IN IF file_name_contains(entry, "bootstraplauncher") THEN TRUE
       ELSE IF n \in DOMAIN library_map THEN is_bootstrap(library_map[n])
       ELSE FALSE

\* The filter loop over the entries, unique_entries dropping repeats.
RECURSIVE filter_classpath(_, _, _)
filter_classpath(entries, unique_entries, acc) ==
    IF entries = <<>> THEN acc
    ELSE LET entry == Head(entries)
         IN IF entry \in unique_entries
            THEN filter_classpath(Tail(entries), unique_entries, acc)
            ELSE filter_classpath(Tail(entries), unique_entries \cup {entry},
                    IF force_include_bootstrap(entry)
                       \/ (~is_on_module_path(entry) /\ ~is_artifact_conflict(entry)
                           /\ ~is_blacklisted(entry))
                    THEN Append(acc, entry) ELSE acc)

exists_in_cp(cp, p) ==
    \E i \in 1..Len(cp) :
        normalize_path_for_comparison(cp[i]) = normalize_path_for_comparison(p)

push_if_absent(cp, p) == IF exists_in_cp(cp, p) THEN cp ELSE Append(cp, p)

RECURSIVE push_all(_, _)
push_all(cp, ps) == IF ps = <<>> THEN cp ELSE push_all(push_if_absent(cp, Head(ps)), Tail(ps))

\* The orders in which a HashMap or a directory can hand out the elements of S.
Orders(S) == {o \in SeqsUpTo(S, Cardinality(S)) : Len(o) = Cardinality(S) /\ Range(o) = S}

client_path == Path(<<"instance">>, <<"client", "", "", "jar">>, FALSE)

\* The jars a directory scan for `<artifact>-*.jar` below group/artifact finds.
scan_for(fs, group, artifact) ==
    {q \in fs : /\ Len(q.dir) = 3 /\ q.dir[1] = group /\ q.dir[2] = artifact
                /\ q.file[1] = artifact /\ q.file[4] = "jar"}

\* What download_file(url, path, None) can leave on disk for the missing
\* paths asked for: all of them, or nothing when the host cannot be reached.
Fetched(fs, wanted) ==
    LET missing == {normalize_path_for_comparison(p) : p \in {q \in wanted : ~path_exists(fs, q)}}
    IN {fs, fs \cup missing}

\* Lines 289-316: the index and the forced module path.
ForgeIndex ==
    /\ fpc = "index"
    /\ library_map' = build_library_map(forge_libs, <<>>)
    /\ module_path_set' = forced_module_paths(library_map')
    /\ fpc' = "modules"
    /\ UNCHANGED <<forge_libs, host, jars, final_classpath, args_file, notForge>>

\* Lines 317-333: missing module jars are fetched, results ignored, and the
\* whole set is written after "-p".
ForgeModulePath ==
    /\ fpc = "modules"
    /\ jars' \in Fetched(jars, module_path_set)
    /\ args_file' = [args_file EXCEPT !.p = IF module_path_set # {} THEN Some(module_path_set)
                                             ELSE None]
    /\ fpc' = "classpath"
    /\ UNCHANGED <<forge_libs, host, library_map, module_path_set, final_classpath, notForge>>

\* Lines 340-364 and 430-481: the entries, client.jar first, the filter, and
\* the bootstrap launcher pushed when the filter left it out.
ForgeClasspath ==
    /\ fpc = "classpath"
    /\ LET entries == classpath_entries(forge_libs)
           with_client == IF path_exists(jars, client_path) THEN <<client_path>> \o entries
                          ELSE entries
           filtered == filter_classpath(with_client, {}, <<>>)
           bootstraps == {Unwrap(maven_path(m)) : m \in {v \in MapValues(library_map) : is_bootstrap(v)}}
       IN \E order \in Orders(bootstraps) :
            final_classpath' = push_all(filtered, order)
    /\ fpc' = "targets"
    /\ UNCHANGED <<forge_libs, host, jars, library_map, module_path_set, args_file, notForge>>

\* Lines 482-573: a bootstrap launcher jar found by scanning the disk and the
\* fmlloader jar (from the index, else from a scan; fetched when missing) are
\* pushed as well.
ForgeTargets ==
    /\ fpc = "targets"
    /\ LET boots == scan_for(jars, "cpw.mods", "bootstraplauncher")
           indexed == {Unwrap(maven_path(m)) : m \in {v \in MapValues(library_map) :
                          v.group = "net.minecraftforge" /\ v.artifact = "fmlloader"}}
           fmls == IF indexed # {} THEN indexed
                   ELSE scan_for(jars, "net.minecraftforge", "fmlloader")
       IN \E bt \in IF boots = {} THEN {None} ELSE {Some(b) : b \in boots},
             ft \in IF fmls = {} THEN {None} ELSE {Some(f) : f \in fmls} :
            /\ jars' \in Fetched(jars, IF IsSome(ft) THEN {Unwrap(ft)} ELSE {})
            /\ final_classpath' =
                 push_all(final_classpath,
                          (IF IsSome(bt) THEN bt ELSE <<>>) \o (IF IsSome(ft) THEN ft ELSE <<>>))
    /\ fpc' = "write"
    /\ UNCHANGED <<forge_libs, host, library_map, module_path_set, args_file, notForge>>

\* Lines 574-584: only the entries that exist are written after "-cp".
ForgeWriteClasspath ==
    /\ fpc = "write"
    /\ args_file' = [args_file EXCEPT
                       !.cp = Some(SelectSeq(final_classpath, LAMBDA p : path_exists(jars, p)))]
    /\ fpc' = "done"
    /\ UNCHANGED <<forge_libs, host, jars, library_map, module_path_set, final_classpath, notForge>>

MaxForgeLibs == 3

AllowOnWindows == Some(<<[action |-> "allow", os |-> Some([name |-> Some("windows"), arch |-> None])]>>)
DisallowOnLinux ==
    Some(<<[action |-> "allow", os |-> None],
           [action |-> "disallow", os |-> Some([name |-> Some("linux"), arch |-> None])]>>)

\* The libraries of the descriptors explored: the three module-path
\* coordinates (the module launcher in two versions, one with a download
\* path spelled differently from its maven path, one limited to Windows),
\* fmlloader, a blacklisted jar, a natives jar, and an ordinary library with
\* rules.
ForgePool ==
    { Lib(<<"cpw.mods", "securejarhandler", "1">>, None,
          Some(Path(<<"cpw.mods", "securejarhandler", "1">>, <<"securejarhandler", "1", "", "jar">>, FALSE)),
          None),
      Lib(<<"cpw.mods", "bootstraplauncher", "1">>, None,
          Some(Path(<<"cpw.mods", "bootstraplauncher", "1">>, <<"bootstraplauncher", "1", "", "jar">>, FALSE)),
          None),
      Lib(<<"cpw.mods", "modlauncher", "1">>, None,
          Some(Path(<<"cpw.mods", "modlauncher", "1">>, <<"modlauncher", "1", "", "jar">>, TRUE)),
          None),
      Lib(<<"cpw.mods", "modlauncher", "2">>, None, None, AllowOnWindows),
      Lib(<<"net.minecraftforge", "fmlloader", "1">>, None, None, None),
      Lib(<<"org.ow2.asm", "asm", "9">>, None,
          Some(Path(<<"org.ow2.asm", "asm", "9">>, <<"asm", "9", "", "jar">>, FALSE)),
          None),
      Lib(<<"org.lwjgl", "lwjgl", "3", "natives-linux">>, None, None, None),
      Lib(<<"com.google", "guava", "1">>, None, None, DisallowOnLinux) }

\* Every path a library of the descriptor can be stored under.
LibraryPaths(ls) ==
    UNION {(IF IsSome(ls[i].path) THEN {Unwrap(ls[i].path)} ELSE {})
           \cup (IF IsSome(parse_maven_name(ls[i].name))
                 THEN {Unwrap(maven_path(Unwrap(parse_maven_name(ls[i].name))))} ELSE {})
           : i \in 1..Len(ls)}

IsModuleJar(p) == Len(p.dir) = 3 /\ p.dir[1] = "cpw.mods" /\ p.dir[2] \in ModulePathArtifacts

InitForge ==
    /\ forge_libs \in SeqsUpTo(ForgePool, MaxForgeLibs)
    /\ host \in {[os |-> "windows", arch |-> "x64"], [os |-> "linux", arch |-> "x64"]}
    /\ \E have \in SUBSET {"client", "modules", "libraries"} :
         jars = {normalize_path_for_comparison(p) :
                   p \in {q \in LibraryPaths(forge_libs) \cup {client_path} :
                            \/ q = client_path /\ "client" \in have
                            \/ q # client_path /\ IsModuleJar(q) /\ "modules" \in have
                            \/ q # client_path /\ ~IsModuleJar(q) /\ "libraries" \in have}}
    /\ library_map = <<>>
    /\ module_path_set = {}
    /\ final_classpath = <<>>
    /\ args_file = [p |-> None, cp |-> None]
    /\ fpc = "index"
    /\ IdleDedup /\ IdleMerge /\ IdleResolve /\ IdleBatch /\ IdleLaunch /\ IdleJava /\ IdleInstall /\ IdleFabric /\ IdleProfile /\ IdleRules /\ IdlePhase /\ IdleRun

NextForge ==
    \/ ForgeIndex
    \/ ForgeModulePath
    \/ ForgeClasspath
    \/ ForgeTargets
    \/ ForgeWriteClasspath

SpecForge == InitForge /\ [][NextForge]_vars

\* The coordinate a path below the libraries directory stands for.
Coordinate(p) == <<p.dir[1], p.dir[2]>>

BootstrapCoordinate == <<"cpw.mods", "bootstraplauncher">>

WrittenModulePath == IF IsSome(args_file.p) THEN Unwrap(args_file.p) ELSE {}
WrittenClasspath == Range(Unwrap(args_file.cp)) \ {client_path}

\* C1 as stated: after build_forge_command no coordinate (group, artifact)
\* is both on the module path and on the classpath.
C1_ModulePathClasspathDisjoint ==
    fpc = "done" =>
        \A m \in WrittenModulePath, c \in WrittenClasspath : Coordinate(m) # Coordinate(c)

\* C1: after build_forge_command the only coordinate that can be both on the
\* module path and on the classpath is the bootstrap launcher's,
\* cpw.mods:bootstraplauncher, and it is on both whenever the descriptor
\* lists it and its jar exists.
C1_DisjointButBootstrap ==
    fpc = "done" =>
        /\ \A m \in WrittenModulePath, c \in WrittenClasspath :
              Coordinate(m) = Coordinate(c) => Coordinate(c) = BootstrapCoordinate
        /\ \A i \in 1..Len(forge_libs) :
              LET m == Unwrap(parse_maven_name(forge_libs[i].name))
                  p == Unwrap(maven_path(m))
              IN (is_bootstrap(m) /\ path_exists(jars, p)) =>
                    p \in WrittenModulePath /\ p \in WrittenClasspath

\* The descriptor lists the module launcher under a download path that is not
\* its maven path, allowed by its rules and present on disk; it is on the
\* module path and kept off the classpath, while the bootstrap launcher is on
\* both.
C1_Witness ==
    /\ fpc = "done"
    /\ host.os = "linux"
    /\ \E i \in 1..Len(forge_libs) :
          LET lib == forge_libs[i]
          IN /\ IsSome(lib.path)
             /\ Coordinate(Unwrap(lib.path)) = <<"cpw.mods", "modlauncher">>
             /\ ~is_on_module_path(Unwrap(lib.path))
             /\ path_exists(jars, Unwrap(lib.path))
             /\ Unwrap(lib.path) \notin WrittenClasspath
             /\ \E m \in WrittenModulePath : Coordinate(m) = <<"cpw.mods", "modlauncher">>
    /\ \E c \in WrittenClasspath : Coordinate(c) = BootstrapCoordinate
    /\ \E m \in WrittenModulePath : Coordinate(m) = BootstrapCoordinate

(***************************************************************************)
(* The version manifest and a vanilla launch                               *)
(***************************************************************************)

\* The manifest urls, in the order of the array both loops walk
\* (launch_logic.rs urls, versions.rs MANIFEST_URLS).
urls ==
    << "piston-meta.mojang.com/version_manifest.json",
       "piston-meta.mojang.com/version_manifest_v2.json",
       "launchermeta.mojang.com/version_manifest.json",
       "bmclapi2.bangbang93.com/version_manifest.json" >>

\* What a mirror answers to one GET: nothing ("unreachable": send() is Err),
\* a status that is not a success with an error page as body ("status"), a
\* success whose body is not a manifest ("garbage"), or the manifest.
Responses == {"unreachable", "status", "garbage", "manifest"}

\* The text last_err is set to after a failed mirror; its second item names
\* the response the text was formatted from.  get_release_versions does not
\* look at the status: it hands the error page to the JSON parser.
failure_message(caller, url, kind) ==
    IF kind = "unreachable" THEN <<"Failed to fetch manifest: ", url>>
    ELSE IF kind = "status" /\ caller # "get_release_versions"
         THEN <<"Manifest returned status: ", url>>
         ELSE <<"Failed to parse manifest: ", url>>

\* `last_err = format!(..)`: the assignment replaces the earlier text.
set_last_err_once(previous, message) == IF previous = <<>> THEN message ELSE previous

set_last_err(previous, message) == message

\* The loop starts: a client is built, last_err is the empty string.
call_fetch(caller) ==
    /\ fetch_caller' = caller
    /\ url_i' = 1
    /\ last_err' = <<>>
    /\ contacted' = <<>>
    /\ fetch_ret' = None
    /\ lpc' = "fetch"

\* The caller has taken the result: the locals of the loop are gone.
fetch_consumed == url_i' = 0 /\ last_err' = <<>> /\ contacted' = <<>>

\* prepare_and_launch lines 216-218 with loader None or "vanilla".
PrepareAndLaunch ==
    /\ lpc = "start"
    /\ call_fetch("prepare_and_launch")
    /\ UNCHANGED <<net_requests, origin, local, local0, todo, launch_ret, notLaunch>>

\* get_release_versions lines 10-13.
GetReleaseVersions ==
    /\ lpc = "start"
    /\ call_fetch("get_release_versions")
    /\ UNCHANGED <<net_requests, origin, local, local0, todo, launch_ret, notLaunch>>

\* One turn of `for url in urls`: the GET, and either the return (the break
\* of get_release_versions) with the parsed manifest or the next url.
ContactMirror ==
    /\ lpc = "fetch"
    /\ url_i <= Len(urls)
    /\ \E kind \in Responses :
          /\ contacted' = Append(contacted, [url |-> urls[url_i], kind |-> kind])
          /\ net_requests' = net_requests + 1
          /\ IF kind = "manifest"
             THEN /\ fetch_ret' = Some(Ok([source |-> urls[url_i]]))
                  /\ lpc' = "fetched"
                  /\ UNCHANGED <<url_i, last_err>>
             ELSE /\ last_err' = set_last_err(last_err, failure_message(fetch_caller, urls[url_i], kind))
                  /\ url_i' = url_i + 1
                  /\ UNCHANGED <<fetch_ret, lpc>>
    /\ UNCHANGED <<fetch_caller, origin, local, local0, todo, launch_ret, notLaunch>>

\* The loop ran out of urls: Err(last_err).
MirrorsExhausted ==
    /\ lpc = "fetch"
    /\ url_i > Len(urls)
    /\ fetch_ret' = Some(Err(last_err))
    /\ lpc' = "fetched"
    /\ UNCHANGED <<fetch_caller, url_i, last_err, contacted, net_requests,
                   origin, local, local0, todo, launch_ret, notLaunch>>

\* get_release_versions lines 24-34: ok_or(last_err)?, then the ids of the
\* releases of the manifest.
ReleaseVersionsReturn ==
    /\ lpc = "fetched"
    /\ fetch_caller = "get_release_versions"
    /\ launch_ret' = Some(IF Unwrap(fetch_ret).ok
                          THEN Ok([releases_of |-> Unwrap(Unwrap(fetch_ret).val).source])
                          ELSE Err(Unwrap(fetch_ret).err))
    /\ lpc' = "done"
    /\ fetch_consumed
    /\ UNCHANGED <<fetch_caller, fetch_ret, net_requests, origin, local, local0, todo, notLaunch>>

\* The `?` of prepare_and_launch line 219 and of download_vanilla line 36.
ManifestFailed ==
    /\ lpc = "fetched"
    /\ fetch_caller \in {"prepare_and_launch", "download_vanilla"}
    /\ ~Unwrap(fetch_ret).ok
    /\ launch_ret' = Some(Err(<<"Failed to fetch manifest (with fallback): ">> \o Unwrap(fetch_ret).err))
    /\ lpc' = "done"
    /\ fetch_consumed
    /\ UNCHANGED <<fetch_caller, fetch_ret, net_requests, origin, local, local0, todo, notLaunch>>

\* The manifest is at hand: resolve_complete_version_info is called next
\* (prepare_and_launch line 246, download_vanilla line 37).
ManifestFetched ==
    /\ lpc = "fetched"
    /\ fetch_caller \in {"prepare_and_launch", "download_vanilla"}
    /\ Unwrap(fetch_ret).ok
    /\ lpc' = "resolve"
    /\ fetch_consumed
    /\ UNCHANGED <<fetch_caller, fetch_ret, net_requests, origin, local, local0, todo, launch_ret, notLaunch>>

\* Whether a file exists, whatever its content.
file_exists(f) == local.files[f] # "absent"

\* The files download_vanilla acquires for a descriptor, in its order: the
\* client jar when the descriptor has downloads, the asset index and the
\* assets when it has an asset index, then every library its rules allow
\* that has an artifact with a path.
RECURSIVE library_targets(_)
library_targets(ls) ==
    IF ls = <<>> THEN <<>>
    ELSE (IF check_rules(Head(ls).rules) /\ IsSome(Head(ls).path)
          THEN <<Unwrap(Head(ls).path)>> ELSE <<>>) \o library_targets(Tail(ls))

targets(info) ==
    (IF info.downloads THEN <<"client.jar">> ELSE <<>>)
    \o (IF info.asset_index THEN <<"index.json", "assets">> ELSE <<>>)
    \o library_targets(info.libraries)

\* What follows a resolved descriptor: prepare_and_launch goes on to
\* download_vanilla (line 250); download_vanilla writes version.json (lines
\* 38-42) and turns to the files.
resolved ==
    IF fetch_caller = "prepare_and_launch"
    THEN /\ lpc' = "download_vanilla"
         /\ UNCHANGED todo
    ELSE /\ lpc' = "download"
         /\ todo' = targets(origin.info)

\* load_version_info, the descriptor of a vanilla version (no inheritsFrom):
\* read from versions/<id>/<id>.json when the file exists,
VanillaLoadCached ==
    /\ lpc = "resolve"
    /\ local.descriptor
    /\ resolved
    /\ local' = IF fetch_caller = "download_vanilla"
                THEN [local EXCEPT !.version_json = TRUE] ELSE local
    /\ UNCHANGED <<fetch_caller, url_i, last_err, contacted, fetch_ret, net_requests,
                   origin, local0, launch_ret, notLaunch>>

\* an error when the manifest does not list the id,
VanillaLoadNotFound ==
    /\ lpc = "resolve"
    /\ ~local.descriptor
    /\ ~origin.listed
    /\ launch_ret' = Some(Err(<<"Version not found in manifest or locally">>))
    /\ lpc' = "done"
    /\ UNCHANGED <<fetch_caller, url_i, last_err, contacted, fetch_ret, net_requests,
                   origin, local, local0, todo, notLaunch>>

\* fetched from the url of the manifest entry and written to disk otherwise,
VanillaLoadFetched ==
    /\ lpc = "resolve"
    /\ ~local.descriptor
    /\ origin.listed
    /\ net_requests' = net_requests + 1
    /\ resolved
    /\ local' = [local EXCEPT !.descriptor = TRUE,
                              !.version_json = (@ \/ fetch_caller = "download_vanilla")]
    /\ UNCHANGED <<fetch_caller, url_i, last_err, contacted, fetch_ret,
                   origin, local0, launch_ret, notLaunch>>

\* or an error when the GET or the parse of its body fails.
VanillaLoadFetchFails ==
    /\ lpc = "resolve"
    /\ ~local.descriptor
    /\ origin.listed
    /\ net_requests' = net_requests + 1
    /\ launch_ret' = Some(Err(<<"Failed to fetch version info">>))
    /\ lpc' = "done"
    /\ UNCHANGED <<fetch_caller, url_i, last_err, contacted, fetch_ret,
                   origin, local, local0, todo, notLaunch>>

\* download_vanilla line 35: the manifest is fetched once more.
DownloadVanilla ==
    /\ lpc = "download_vanilla"
    /\ call_fetch("download_vanilla")
    /\ UNCHANGED <<net_requests, origin, local, local0, todo, launch_ret, notLaunch>>

\* download_file on the next file of download_vanilla (the assets standing
\* for download_assets_parallel): a file with the expected sha1 is left
\* alone and nothing is requested;
VanillaFileValid ==
    /\ lpc = "download"
    /\ todo # <<>>
    /\ local.files[Head(todo)] = "good"
    /\ todo' = Tail(todo)
    /\ UNCHANGED <<lpc, fetch_caller, url_i, last_err, contacted, fetch_ret, net_requests,
                   origin, local, local0, launch_ret, notLaunch>>

\* otherwise one of the max_retries GETs brings the file,
VanillaFileFetched ==
    /\ lpc = "download"
    /\ todo # <<>>
    /\ local.files[Head(todo)] # "good"
    /\ \E gets \in 1..max_retries : net_requests' = net_requests + gets
    /\ local' = [local EXCEPT !.files[Head(todo)] = "good"]
    /\ todo' = Tail(todo)
    /\ UNCHANGED <<lpc, fetch_caller, url_i, last_err, contacted, fetch_ret,
                   origin, local0, launch_ret, notLaunch>>

\* or all of them fail, which leaves the old file (no response at all), no
\* file (the last body did not hash to the sha1) or a partial one.
VanillaFileFails ==
    /\ lpc = "download"
    /\ todo # <<>>
    /\ local.files[Head(todo)] # "good"
    /\ net_requests' = net_requests + max_retries
    /\ \E left \in {local.files[Head(todo)], "absent", "bad"} :
          local' = [local EXCEPT !.files[Head(todo)] = left]
    /\ launch_ret' = Some(Err(<<"Failed to download ", Head(todo)>>))
    /\ lpc' = "done"
    /\ UNCHANGED <<fetch_caller, url_i, last_err, contacted, fetch_ret,
                   origin, local0, todo, notLaunch>>

\* build_vanilla_command lines 84-91: get_java_path_for_major finds the
\* runtime,
VanillaJavaFound ==
    /\ lpc = "download"
    /\ todo = <<>>
    /\ local.java
    /\ lpc' = "classpath"
    /\ UNCHANGED <<fetch_caller, url_i, last_err, contacted, fetch_ret, net_requests,
                   origin, local, local0, todo, launch_ret, notLaunch>>

\* or download_java is called, and brings it or fails.
VanillaJavaDownloaded ==
    /\ lpc = "download"
    /\ todo = <<>>
    /\ ~local.java
    /\ net_requests' = net_requests + 1
    /\ \E ok \in BOOLEAN :
          IF ok
          THEN /\ local' = [local EXCEPT !.java = TRUE]
               /\ lpc' = "classpath"
               /\ UNCHANGED launch_ret
          ELSE /\ launch_ret' = Some(Err(<<"Failed to download Java">>))
               /\ lpc' = "done"
               /\ UNCHANGED local
    /\ UNCHANGED <<fetch_caller, url_i, last_err, contacted, fetch_ret,
                   origin, local0, todo, notLaunch>>

\* build_vanilla_command lines 92-107: the libraries of version.json that
\* the rules allow and whose artifact path exists, in their order.
RECURSIVE library_jars(_)
library_jars(ls) ==
    IF ls = <<>> THEN <<>>
    ELSE (IF /\ check_rules(Head(ls).rules)
             /\ IsSome(Head(ls).path)
             /\ file_exists(Unwrap(Head(ls).path))
          THEN <<Unwrap(Head(ls).path)>> ELSE <<>>) \o library_jars(Tail(ls))

\* `jars.insert(0, client_path)`
insert_client_last(js) == Append(js, "client.jar")

insert_client(js) == <<"client.jar">> \o js

\* build_vanilla_command lines 92-159.
BuildVanillaCommand ==
    /\ lpc = "classpath"
    /\ LET js == IF local.version_json THEN library_jars(origin.info.libraries) ELSE <<>>
       IN launch_ret' = Some(IF file_exists("client.jar")
                             THEN Ok([classpath |-> insert_client(js)])
                             ELSE Err(<<"client.jar missing in instance">>))
    /\ lpc' = "done"
    /\ UNCHANGED <<fetch_caller, url_i, last_err, contacted, fetch_ret, net_requests,
                   origin, local, local0, todo, notLaunch>>

(***************************************************************************)
(* SpecLaunch: one call of prepare_and_launch for a vanilla version, or of *)
(* get_release_versions                                                    *)
(***************************************************************************)
VanillaLib(path, rules) == [path |-> path, rules |-> rules]

\* The descriptors explored: one with a client download, an asset index and
\* three libraries (one without an artifact path, one its rules deny on
\* Linux), one with neither downloads nor asset index, one without
\* libraries.
VanillaInfos ==
    { [downloads |-> TRUE, asset_index |-> TRUE,
       libraries |-> << VanillaLib(Some("lib/a.jar"), None),
                        VanillaLib(None, None),
                        VanillaLib(Some("lib/b.jar"), DisallowOnLinux) >>],
      [downloads |-> FALSE, asset_index |-> FALSE,
       libraries |-> << VanillaLib(Some("lib/a.jar"), None) >>],
      [downloads |-> TRUE, asset_index |-> TRUE, libraries |-> <<>>] }

VanillaFiles == {"client.jar", "index.json", "assets", "lib/a.jar", "lib/b.jar"}

\* Every forge variable but host keeps its idle value.
IdleForgeCommand ==
    /\ forge_libs = <<>> /\ jars = {} /\ library_map = <<>> /\ module_path_set = {}
    /\ final_classpath = <<>> /\ args_file = <<>> /\ fpc = "idle"

InitLaunch ==
    /\ lpc = "start"
    /\ fetch_caller = ""
    /\ url_i = 0
    /\ last_err = <<>>
    /\ contacted = <<>>
    /\ fetch_ret = None
    /\ net_requests = 0
    /\ origin \in [listed : BOOLEAN, info : VanillaInfos]
    /\ \E have \in SUBSET {"client", "assets", "libraries"},
          client \in {"bad", "good"}, cached \in BOOLEAN, java \in BOOLEAN :
          /\ ("client" \notin have) => client = "good"
          /\ local = [descriptor |-> cached,
                      version_json |-> cached,
                      java |-> java,
                      files |-> [f \in VanillaFiles |->
                                   CASE f = "client.jar" ->
                                          IF "client" \in have THEN client ELSE "absent"
                                     [] f \in {"index.json", "assets"} ->
                                          IF "assets" \in have THEN "good" ELSE "absent"
                                     [] OTHER ->
                                          IF "libraries" \in have THEN "good" ELSE "absent"]]
    /\ local0 = local
    /\ todo = <<>>
    /\ launch_ret = None
    /\ host \in {[os |-> "windows", arch |-> "x64"], [os |-> "linux", arch |-> "x64"]}
    /\ IdleForgeCommand
    /\ IdleDedup /\ IdleMerge /\ IdleResolve /\ IdleBatch /\ IdleJava /\ IdleInstall /\ IdleFabric /\ IdleProfile /\ IdleRules /\ IdlePhase /\ IdleRun

NextLaunch ==
    \/ PrepareAndLaunch
    \/ GetReleaseVersions
    \/ ContactMirror
    \/ MirrorsExhausted
    \/ ReleaseVersionsReturn
    \/ ManifestFailed
    \/ ManifestFetched
    \/ VanillaLoadCached
    \/ VanillaLoadNotFound
    \/ VanillaLoadFetched
    \/ VanillaLoadFetchFails
    \/ DownloadVanilla
    \/ VanillaFileValid
    \/ VanillaFileFetched
    \/ VanillaFileFails
    \/ VanillaJavaFound
    \/ VanillaJavaDownloaded
    \/ BuildVanillaCommand

SpecLaunch == InitLaunch /\ [][NextLaunch]_vars

LaunchReturned == lpc = "done" /\ fetch_caller \in {"prepare_and_launch", "download_vanilla"}

\* Everything the launch of the version reads was on disk, with the
\* expected hash, when the call started.
FullyCached ==
    /\ local0.descriptor
    /\ local0.java
    /\ \A i \in 1..Len(targets(origin.info)) : local0.files[targets(origin.info)[i]] = "good"

\* C12: a vanilla launch that finds the descriptor, the client jar, the
\* assets and the libraries cached and hash-valid returns its command
\* without having sent any network request.
C12_CachedLaunchNoNetwork ==
    (LaunchReturned /\ Unwrap(launch_ret).ok /\ FullyCached) => net_requests = 0

\* C13: whenever build_vanilla_command returns a command, client.jar exists
\* and is the first entry of the classpath, every library entry coming
\* after it; when client.jar does not exist the call returns no command.
C13_ClientJarFirst ==
    LaunchReturned =>
        /\ Unwrap(launch_ret).ok =>
              LET cp == Unwrap(Unwrap(launch_ret).val).classpath
              IN /\ file_exists("client.jar")
                 /\ cp[1] = "client.jar"
                 /\ \A i \in 2..Len(cp) : cp[i] # "client.jar" /\ file_exists(cp[i])
                 /\ SubSeq(cp, 2, Len(cp)) = library_jars(origin.info.libraries)
        /\ ~file_exists("client.jar") => ~Unwrap(launch_ret).ok

\* A command was returned whose classpath holds two libraries after the
\* client jar.
C13_Witness ==
    /\ LaunchReturned
    /\ Unwrap(launch_ret).ok
    /\ Len(Unwrap(Unwrap(launch_ret).val).classpath) = 3

\* build_vanilla_command was reached without a client jar and refused.
C13_MissingClientRefused ==
    /\ LaunchReturned
    /\ ~Unwrap(launch_ret).ok
    /\ Unwrap(launch_ret).err = <<"client.jar missing in instance">>

(***************************************************************************)
(* The Java runtime                                                        *)
(***************************************************************************)

\* Strings are sequences of one-character strings.
Digits == <<"0", "1", "2", "3", "4", "5", "6", "7", "8", "9">>
is_digit(c) == \E d \in 0..9 : Digits[d + 1] = c
digit_value(c) == CHOOSE d \in 0..9 : Digits[d + 1] = c

\* str::split('.'): the pieces between the dots, `piece` being the one that
\* is open.
RECURSIVE split_dots(_, _)
split_dots(s, piece) ==
    IF s = <<>> THEN <<piece>>
    ELSE IF Head(s) = "." THEN <<piece>> \o split_dots(Tail(s), <<>>)
    ELSE split_dots(Tail(s), Append(piece, Head(s)))

RECURSIVE decimal_value(_, _)
decimal_value(s, acc) ==
    IF s = <<>> THEN acc ELSE decimal_value(Tail(s), 10 * acc + digit_value(Head(s)))

\* str::parse::<u32>(): an error on the empty string and on any character
\* that is not a digit (the strings explored hold no sign and at most
\* three digits, far from the 32 bits of the result).
parse_u32(s) ==
    IF s = <<>> \/ \E i \in 1..Len(s) : ~is_digit(s[i]) THEN None
    ELSE Some(decimal_value(s, 0))

\* Option::unwrap_or / Result::unwrap_or
unwrap_or(o, default) == IF IsSome(o) THEN Unwrap(o) ELSE default

\* get_required_java_version without the test of the patch number.
get_required_java_version_no_patch(version) ==
    LET parts == split_dots(version, <<>>)
        minor == unwrap_or(parse_u32(parts[2]), 0)
    IN IF Len(parts) < 2 THEN 8
       ELSE IF minor <= 16 THEN 8
       ELSE IF minor <= 17 THEN 16
       ELSE IF minor <= 20 THEN 17
       ELSE 21

get_required_java_version(version) ==
    LET parts == split_dots(version, <<>>)
        minor == unwrap_or(parse_u32(parts[2]), 0)
    IN IF Len(parts) < 2 THEN 8
       ELSE IF minor <= 16 THEN 8
       ELSE IF minor <= 17 THEN 16
       ELSE IF minor <= 20
            THEN IF /\ minor = 20
                    /\ Len(parts) > 2
                    /\ unwrap_or(parse_u32(parts[3]), 0) >= 5
                 THEN 21
                 ELSE 17
       ELSE 21

starts_with(s, prefix) ==
    Len(s) >= Len(prefix) /\ SubSeq(s, 1, Len(prefix)) = prefix

\* get_system_java_version("java"): None stands for Err (the binary does
\* not run, or its output holds no quoted version), otherwise the major
\* read from the version text.
get_system_java_version ==
    IF java_env.system = None THEN None
    ELSE LET version_str == Unwrap(java_env.system).text
         IN IF starts_with(version_str, <<"1", ".", "8">>) THEN Some(8)
            ELSE parse_u32(split_dots(version_str, <<>>)[1])

\* `version >= required_version`
exact_major_or_newer(version, required_version) == version >= required_version

\* `version == required_version` (lines 15, 102, 144)
exact_major(version, required_version) == version = required_version

\* get_java_path_for_major
get_java_path_for_major(required_version) ==
    IF /\ IsSome(get_system_java_version)
       /\ exact_major(Unwrap(get_system_java_version), required_version)
    THEN Ok("java")
    ELSE IF java_env.bin_java THEN Ok("embedded/bin/java")
    ELSE IF java_env.os = "windows" /\ java_env.javaw THEN Ok("embedded/bin/javaw.exe")
    ELSE Err("No suitable Java found")

\* download_java lines 100-107 and 142-149: what is returned when a retry
\* loop ends without a response.
system_fallback(major, last_error) ==
    IF /\ IsSome(get_system_java_version)
       /\ exact_major(Unwrap(get_system_java_version), major)
    THEN Ok("java")
    ELSE Err(last_error)

\* The required major of the version id (lib.rs check_java, the loaders'
\* build_*_command for a descriptor without javaVersion).
RequiredJava ==
    /\ jpc = "required"
    /\ required_java' = get_required_java_version(mc_version)
    /\ jpc' = "entry"
    /\ UNCHANGED <<mc_version, target, java_env, java_ret, java_try, notJava>>

\* get_java_path_for_major(required_java)
LocateJava ==
    /\ jpc = "entry"
    /\ java_ret' = Some(get_java_path_for_major(required_java))
    /\ jpc' = "located"
    /\ UNCHANGED <<mc_version, target, java_env, required_java, java_try, notJava>>

\* download_java lines 45-50, called on its own (the download_java command)
\* or after get_java_path_for_major returned Err: the embedded java is
\* returned when it is there already.
DownloadJava ==
    /\ jpc = "entry" \/ (jpc = "located" /\ ~Unwrap(java_ret).ok)
    /\ IF java_env.bin_java
       THEN java_ret' = Some(Ok("embedded/bin/java")) /\ jpc' = "done" /\ UNCHANGED java_try
       ELSE java_ret' = None /\ jpc' = "info" /\ java_try' = 1
    /\ UNCHANGED <<mc_version, target, java_env, required_java, notJava>>

\* One attempt of a retry loop of download_java (lines 79-99 for the release
\* info, 119-139 for the archive): a response ends the loop, a failure of
\* the last attempt ends the call with the fallback.
java_attempt(next) ==
    \E responded \in BOOLEAN :
        IF responded
        THEN jpc' = next /\ java_try' = 0 /\ UNCHANGED java_ret
        ELSE IF java_try < max_retries
             THEN java_try' = java_try + 1 /\ UNCHANGED <<jpc, java_ret>>
             ELSE /\ java_ret' = Some(system_fallback(required_java, "Failed to fetch Java"))
                  /\ jpc' = "done"
                  /\ UNCHANGED java_try

JavaInfoAttempt ==
    /\ jpc = "info"
    /\ java_attempt("package")
    /\ UNCHANGED <<mc_version, target, java_env, required_java, notJava>>

\* download_java lines 108-115: the release, its package and its link, each
\* with a `?`.
JavaPackage ==
    /\ jpc = "package"
    /\ \E complete \in BOOLEAN :
          IF complete
          THEN jpc' = "bytes" /\ java_try' = 1 /\ UNCHANGED java_ret
          ELSE /\ java_ret' = Some(Err("No Java assets found"))
               /\ jpc' = "done"
               /\ UNCHANGED java_try
    /\ UNCHANGED <<mc_version, target, java_env, required_java, notJava>>

JavaBytesAttempt ==
    /\ jpc = "bytes"
    /\ java_attempt("extract")
    /\ UNCHANGED <<mc_version, target, java_env, required_java, notJava>>

\* download_java lines 140-220: the archive is written and unpacked into
\* java/<major>; the call returns the java (or, on Windows, the javaw) that
\* is then in bin, an error when there is none or when a file operation
\* fails.
JavaExtract ==
    /\ jpc = "extract"
    /\ \E unpacked \in BOOLEAN, has_java \in BOOLEAN, has_javaw \in BOOLEAN :
          IF ~unpacked
          THEN java_ret' = Some(Err("extract failed")) /\ UNCHANGED java_env
          ELSE /\ java_env' = [java_env EXCEPT !.bin_java = has_java,
                                               !.javaw = @ \/ has_javaw]
               /\ java_ret' = Some(IF has_java THEN Ok("embedded/bin/java")
                                   ELSE IF java_env.os = "windows" /\ java_env'.javaw
                                        THEN Ok("embedded/bin/javaw.exe")
                                        ELSE Err("Java downloaded but executable not found in expected path"))
    /\ jpc' = "done"
    /\ UNCHANGED <<mc_version, target, required_java, java_try, notJava>>

(***************************************************************************)
(* SpecJava: the required major of a version id, then the runtime for it   *)
(***************************************************************************)
MaxMinor == 22
MaxPatch == 6

\* u32::to_string
RECURSIVE decimal(_)
decimal(n) ==
    IF n < 10 THEN <<Digits[n + 1]>> ELSE Append(decimal(n \div 10), Digits[(n % 10) + 1])

\* The id of release 1.minor or 1.minor.patch.
version_id(minor, patch) ==
    <<"1", ".">> \o decimal(minor)
    \o (IF IsSome(patch) THEN <<".">> \o decimal(Unwrap(patch)) ELSE <<>>)

\* Ids that are not of that form: a snapshot, and releases with a suffix.
OtherIds ==
    { <<"2", "4", "w", "1", "4", "a">>,
      <<"1", ".", "2", "1", "-", "p", "r", "e", "1">>,
      <<"1", ".", "2", "0", ".", "5", "-", "r", "c", "1">> }

\* The quoted version of `java -version` with the major of that runtime.
SystemJavas ==
    { [text |-> <<"1", ".", "8", ".", "0", "_", "3", "1", "1">>, major |-> 8],
      [text |-> <<"1", ".", "7", ".", "0", "_", "8", "0">>, major |-> 7],
      [text |-> <<"1", "6", ".", "0", ".", "2">>, major |-> 16],
      [text |-> <<"1", "7", ".", "0", ".", "1">>, major |-> 17],
      [text |-> <<"2", "1">>, major |-> 21],
      [text |-> <<"2", "1", "-", "e", "a">>, major |-> 21],
      [text |-> <<"2", "5", ".", "0", ".", "1">>, major |-> 25] }

InitJava ==
    /\ \/ \E minor \in 0..MaxMinor, patch \in {None} \cup {Some(n) : n \in 0..MaxPatch} :
             /\ target = Some([minor |-> minor, patch |-> patch])
             /\ mc_version = version_id(minor, patch)
       \/ target = None /\ mc_version \in OtherIds
    /\ java_env \in [system : {None} \cup {Some(j) : j \in SystemJavas},
                     bin_java : BOOLEAN, javaw : BOOLEAN, os : {"windows", "linux"}]
    /\ jpc = "required"
    /\ required_java = 0
    /\ java_ret = None
    /\ java_try = 0
    /\ IdleDedup /\ IdleMerge /\ IdleResolve /\ IdleBatch /\ IdleForge /\ IdleLaunch /\ IdleInstall /\ IdleFabric /\ IdleProfile /\ IdleRules /\ IdlePhase /\ IdleRun

NextJava ==
    \/ RequiredJava
    \/ LocateJava
    \/ DownloadJava
    \/ JavaInfoAttempt
    \/ JavaPackage
    \/ JavaBytesAttempt
    \/ JavaExtract

SpecJava == InitJava /\ [][NextJava]_vars

\* The table of the specification.
RequiredMajorTable(minor, patch) ==
    IF minor <= 16 THEN 8
    ELSE IF minor = 17 THEN 16
    ELSE IF minor \in 18..19 THEN 17
    ELSE IF minor = 20 THEN (IF IsSome(patch) /\ Unwrap(patch) >= 5 THEN 21 ELSE 17)
    ELSE 21

\* C14: the required major of version 1.minor[.patch] is 8 up to minor 16,
\* 16 for minor 17, 17 from 1.18 to 1.20.4, 21 from 1.20.5 on and for every
\* minor from 21 on; "1.16.5" gives 8, "1.17" 16, "1.20.4" 17, "1.20.5" 21
\* and "1.21" 21.
C14_RequiredMajorTable ==
    /\ (jpc # "required" /\ IsSome(target)) =>
          required_java = RequiredMajorTable(Unwrap(target).minor, Unwrap(target).patch)
    /\ get_required_java_version(<<"1", ".", "1", "6", ".", "5">>) = 8
    /\ get_required_java_version(<<"1", ".", "1", "7">>) = 16
    /\ get_required_java_version(<<"1", ".", "2", "0", ".", "4">>) = 17
    /\ get_required_java_version(<<"1", ".", "2", "0", ".", "5">>) = 21
    /\ get_required_java_version(<<"1", ".", "2", "1">>) = 21

\* The required major of "1.20.5" has been computed.
C14_Witness ==
    /\ jpc # "required"
    /\ mc_version = <<"1", ".", "2", "0", ".", "5">>
    /\ required_java = 21

ReturnedSystemJava ==
    IsSome(java_ret) /\ Unwrap(java_ret).ok /\ Unwrap(Unwrap(java_ret).val) = "java"

\* java/<major>/bin holds the executable of the host.
EmbeddedInstalled ==
    java_env.bin_java \/ (java_env.os = "windows" /\ java_env.javaw)

\* C15: get_java_path_for_major and the fallbacks of download_java return
\* the system runtime only when its major is the required one; when
\* get_java_path_for_major does not return it, it returns the embedded
\* install of that major if there is one and an error if there is none.
C15_SystemOnlyOnExactMajor ==
    /\ ReturnedSystemJava =>
          /\ IsSome(java_env.system)
          /\ Unwrap(java_env.system).major = required_java
    /\ (jpc = "located" /\ ~ReturnedSystemJava) =>
          IF EmbeddedInstalled
          THEN /\ Unwrap(java_ret).ok
               /\ Unwrap(Unwrap(java_ret).val) \in {"embedded/bin/java", "embedded/bin/javaw.exe"}
          ELSE ~Unwrap(java_ret).ok

\* download_java got no response in three attempts and fell back to the
\* system runtime, whose major is the required one.
C15_Witness ==
    /\ jpc = "done"
    /\ java_try = max_retries
    /\ ReturnedSystemJava
    /\ required_java = 17

\* C16: the manifest loops of fetch_manifest_with_fallback and of
\* get_release_versions contact the mirrors in the order of the list; they
\* return the manifest of the first mirror that answers with one, having
\* contacted no mirror after it, and when no mirror does they return an
\* error whose text is the failure of the last mirror of the list.
C16_FirstParsingMirror ==
    /\ \A i \in 1..Len(contacted) : i <= Len(urls) /\ contacted[i].url = urls[i]
    /\ lpc = "fetched" =>
          LET n == Len(contacted)
              ret == Unwrap(fetch_ret)
          IN /\ ret.ok =>
                   /\ n >= 1
                   /\ contacted[n].kind = "manifest"
                   /\ \A i \in 1..(n - 1) : contacted[i].kind # "manifest"
                   /\ Unwrap(ret.val).source = urls[n]
             /\ ~ret.ok =>
                   /\ n = Len(urls)
                   /\ \A i \in 1..n : contacted[i].kind # "manifest"
                   /\ ret.err[2] = urls[Len(urls)]
                   /\ ret.err[1] = (CASE contacted[n].kind = "unreachable" -> "Failed to fetch manifest: "
                                      [] contacted[n].kind = "garbage" -> "Failed to parse manifest: "
                                      [] contacted[n].kind = "status" ->
                                           IF fetch_caller = "get_release_versions"
                                           THEN "Failed to parse manifest: "
                                           ELSE "Manifest returned status: ")

\* Two mirrors failed in different ways and the third returned the manifest.
C16_Witness ==
    /\ lpc = "fetched"
    /\ Unwrap(fetch_ret).ok
    /\ Len(contacted) = 3
    /\ contacted[1].kind = "unreachable"
    /\ contacted[2].kind = "status"

\* Every mirror failed, the last one differently from the one before.
C16_AllMirrorsFailed ==
    /\ lpc = "fetched"
    /\ ~Unwrap(fetch_ret).ok
    /\ contacted[Len(urls) - 1].kind # contacted[Len(urls)].kind

(***************************************************************************)
(* ensure_forge_installed and get_forge_recommended_version                *)
(***************************************************************************)

\* The GETs of get_forge_recommended_version in their order: the two
\* promotions feeds, the two maven-metadata.xml, the two directory listings.
forge_sources == <<"json", "json", "xml", "xml", "listing", "listing">>

\* The key of a promotions entry, "<mc>-<channel>", as characters (the
\* channel counts as one: no version holds a letter).
promo_key(e) == e.mc \o <<"-", e.channel>>

\* Lines 1559-1577 on the "promos" object, whose entries come in the
\* iteration order of the map: "<mc>-recommended", else "<mc>-latest", else
\* the first key that starts with mc_version.
RECURSIVE first_with_prefix(_, _)
first_with_prefix(promos, v) ==
    IF promos = <<>> THEN None
    ELSE IF starts_with(promo_key(Head(promos)), v) THEN Some(Head(promos).build)
    ELSE first_with_prefix(Tail(promos), v)

promo_get(promos, key) ==
    IF \E i \in 1..Len(promos) : promo_key(promos[i]) = key
    THEN Some(promos[CHOOSE i \in 1..Len(promos) : promo_key(promos[i]) = key].build)
    ELSE None

promoted_build(promos, v) ==
    IF IsSome(promo_get(promos, v \o <<"-", "recommended">>))
    THEN promo_get(promos, v \o <<"-", "recommended">>)
    ELSE IF IsSome(promo_get(promos, v \o <<"-", "latest">>))
    THEN promo_get(promos, v \o <<"-", "latest">>)
    ELSE first_with_prefix(promos, v)

\* Lines 1612-1625: the dotted numbers of two builds are compared item by
\* item, a missing item counting as 0.
RECURSIVE better(_, _)
better(a, b) ==
    IF a = <<>> /\ b = <<>> THEN FALSE
    ELSE LET av == IF a = <<>> THEN 0 ELSE Head(a)
             bv == IF b = <<>> THEN 0 ELSE Head(b)
         IN IF av > bv THEN TRUE
            ELSE IF av < bv THEN FALSE
            ELSE better(IF a = <<>> THEN a ELSE Tail(a), IF b = <<>> THEN b ELSE Tail(b))

\* Lines 1603-1635 (and 1650-1693): the best build among the versions
\* "<mc>-<build>" of the document that start with mc_version and "-".
RECURSIVE best_build(_, _, _)
best_build(versions, v, best) ==
    IF versions = <<>> THEN best
    ELSE best_build(Tail(versions), v,
                    IF ~starts_with(Head(versions).mc \o <<"-">>, v \o <<"-">>) THEN best
                    ELSE IF best = None THEN Some(Head(versions).build)
                    ELSE IF better(Head(versions).build, Unwrap(best)) THEN Some(Head(versions).build)
                    ELSE best)

\* What a source yields for mc_version from the body of its answer.
source_yield(kind, body, v) ==
    IF kind = "json" THEN promoted_build(body, v) ELSE best_build(body, v, None)

\* `if mc_version == "1.21.11"`
pinned_version == <<"1", ".", "2", "1", ".", "1", "1">>
pinned_build == <<61, 0, 8>>

Promo(mc, channel, build) == [mc |-> mc, channel |-> channel, build |-> build]
Listed(mc, build) == [mc |-> mc, build |-> build]

v1_14 == <<"1", ".", "1", "4">>
v1_14_2 == <<"1", ".", "1", "4", ".", "2">>
v1_12_2 == <<"1", ".", "1", "2", ".", "2">>

\* The bodies explored: promotions with no entry, with the channels of
\* 1.14.2 (latest before recommended), of 1.12.2, of the pinned version;
\* version lists with nothing, with two builds of 1.14.2, with one of 1.12.2.
PromoBodies ==
    { <<>>,
      << Promo(v1_14_2, "latest", <<26, 0, 10>>), Promo(v1_14_2, "recommended", <<26, 0, 5>>) >>,
      << Promo(v1_12_2, "recommended", <<14, 23>>) >>,
      << Promo(pinned_version, "latest", <<61, 0, 9>>) >> }

VersionBodies ==
    { <<>>,
      << Listed(v1_14_2, <<26, 0, 9>>), Listed(v1_14_2, <<26, 0, 10>>), Listed(v1_14_2, <<26>>) >>,
      << Listed(v1_12_2, <<14, 23>>) >> }

\* One GET of get_forge_recommended_version, lines 1550-1588, 1598-1639 and
\* 1646-1697: an answer that yields a build ends the function, anything else
\* passes to the next source; only the promotions loop records last_err.
AskForgeSource ==
    /\ fipc = "build"
    /\ src_i <= Len(forge_sources)
    /\ LET kind == forge_sources[src_i]
       IN \E answer \in {"unreachable", "status", "body"} :
          \E body \in IF answer # "body" THEN {None}
                      ELSE {Some(b) : b \in IF kind = "json" THEN PromoBodies ELSE VersionBodies} :
             LET yield == IF IsSome(body) THEN source_yield(kind, Unwrap(body), fmc) ELSE None
             IN /\ ftried' = Append(ftried, [kind |-> kind, body |-> body])
                /\ flast_err' = IF kind # "json" \/ answer = "body" THEN flast_err
                                ELSE IF answer = "status" THEN "Forge API returned status"
                                ELSE "Failed to connect to Forge API"
                /\ IF IsSome(yield)
                   THEN /\ forge_version' = Some(Ok(Unwrap(yield)))
                        /\ fipc' = "cached"
                        /\ UNCHANGED src_i
                   ELSE /\ src_i' = src_i + 1
                        /\ UNCHANGED <<forge_version, fipc>>
    /\ UNCHANGED <<fmc, versions_dir, fvariants, install_ret, notInstall>>

\* Lines 1699-1704: no source yielded a build; and the `?` of line 1410.
ForgeSourcesExhausted ==
    /\ fipc = "build"
    /\ src_i > Len(forge_sources)
    /\ IF fmc = pinned_version
       THEN /\ forge_version' = Some(Ok(pinned_build))
            /\ fipc' = "cached"
            /\ UNCHANGED install_ret
       ELSE /\ forge_version' = Some(Err(IF flast_err = ""
                                         THEN "Forge promotions API did not yield a version"
                                         ELSE flast_err))
            /\ install_ret' = forge_version'
            /\ fipc' = "done"
    /\ UNCHANGED <<fmc, src_i, ftried, flast_err, versions_dir, fvariants, notInstall>>

\* The names a directory of versions/ can have, by how the checks below
\* read them: the two candidates of lines 1412-1415, a name that holds
\* "forge", mc_version and the build without being a candidate, and the
\* directory of another build of the same mc_version.
candidates == <<"mc-forge-build", "forge-mc-build">>
ForgeDirNames == {"mc-forge-build", "forge-mc-build", "mc-forge-build-client", "mc-forge-otherbuild"}

\* Lines 1416-1421 (1490-1496, 1507-1512): the first candidate whose json
\* exists.
existing_candidate(dir) ==
    IF candidates[1] \in dir THEN Some(candidates[1])
    ELSE IF candidates[2] \in dir THEN Some(candidates[2])
    ELSE None

\* find_existing_forge_version: a directory whose name contains "forge",
\* mc_version and forge_version and that holds its json.
find_existing_forge_version(dir) ==
    IF dir \cap {"mc-forge-build", "forge-mc-build", "mc-forge-build-client"} = {} THEN None
    ELSE Some(CHOOSE n \in dir \cap {"mc-forge-build", "forge-mc-build", "mc-forge-build-client"} : TRUE)

\* Lines 1516-1530: a directory whose name starts with mc_version and
\* contains "forge" and that holds its json.
scan_versions_dir(dir) ==
    IF dir \cap {"mc-forge-build", "mc-forge-build-client", "mc-forge-otherbuild"} = {} THEN None
    ELSE Some(CHOOSE n \in dir \cap {"mc-forge-build", "mc-forge-build-client", "mc-forge-otherbuild"} : TRUE)

\* ensure_forge_installed goes on with the build number of line 1410: the
\* locals of get_forge_recommended_version are gone.
build_taken == src_i' = 0 /\ ftried' = <<>> /\ flast_err' = ""

\* Lines 1411-1424: an installed descriptor is returned at once.
ForgeAlreadyInstalled ==
    /\ fipc = "cached"
    /\ \/ IsSome(existing_candidate(versions_dir))
       \/ IsSome(find_existing_forge_version(versions_dir))
    /\ install_ret' = Some(Ok(IF IsSome(existing_candidate(versions_dir))
                              THEN Unwrap(existing_candidate(versions_dir))
                              ELSE Unwrap(find_existing_forge_version(versions_dir))))
    /\ fipc' = "done"
    /\ build_taken
    /\ UNCHANGED <<fmc, forge_version, versions_dir, fvariants, notInstall>>

\* Lines 1426-1469: the installer jar is downloaded and a Java runtime
\* found or downloaded, each with a `?`.
PrepareInstaller ==
    /\ fipc = "cached"
    /\ existing_candidate(versions_dir) = None
    /\ find_existing_forge_version(versions_dir) = None
    /\ \E ready \in BOOLEAN :
          IF ready
          THEN fipc' = "variants" /\ UNCHANGED install_ret
          ELSE /\ install_ret' = Some(Err("Failed to download"))
               /\ fipc' = "done"
    /\ build_taken
    /\ UNCHANGED <<fmc, forge_version, versions_dir, fvariants, notInstall>>

\* The argument lists of lines 1474-1478, in their order.
installer_variants ==
    << <<"--installClient">>,
       <<"--installClient", "base_path">>,
       <<"--installClient", "--target", "base_path">> >>

\* `if output.status.success()`
run_accepted(status_ok, dir) == status_ok

\* One turn of the loop of lines 1474-1501 with what follows it when it is
\* the last (1502-1504): the installer is run with the next argument list;
\* it may not start, exit with or without success, and leave a descriptor
\* directory in versions/.
RunInstaller ==
    /\ fipc = "variants"
    /\ Len(fvariants) < Len(installer_variants)
    /\ \E started \in BOOLEAN, status_ok \in BOOLEAN, produced \in {None} \cup {Some(n) : n \in ForgeDirNames} :
          LET shape == installer_variants[Len(fvariants) + 1]
              dir == IF started /\ IsSome(produced)
                     THEN versions_dir \cup {Unwrap(produced)} ELSE versions_dir
          IN /\ (~started) => (~status_ok /\ produced = None)
             /\ versions_dir' = dir
             /\ fvariants' = Append(fvariants, [shape |-> shape, started |-> started,
                                                status_ok |-> status_ok /\ started,
                                                produced |-> produced])
             /\ IF ~started
                THEN /\ install_ret' = Some(Err("Failed to run forge installer"))
                     /\ fipc' = "done"
                ELSE IF run_accepted(status_ok, dir) \/ IsSome(existing_candidate(dir))
                THEN /\ fipc' = "verify"
                     /\ UNCHANGED install_ret
                ELSE IF IsSome(find_existing_forge_version(dir))
                THEN /\ install_ret' = Some(Ok(Unwrap(find_existing_forge_version(dir))))
                     /\ fipc' = "done"
                ELSE IF Len(fvariants') = Len(installer_variants)
                THEN /\ install_ret' = Some(Err("Forge installer failed"))
                     /\ fipc' = "done"
                ELSE UNCHANGED <<install_ret, fipc>>
    /\ UNCHANGED <<fmc, src_i, ftried, flast_err, forge_version, notInstall>>

\* Lines 1506-1532: the result of an accepted run.
VerifyInstall ==
    /\ fipc = "verify"
    /\ install_ret' = Some(IF IsSome(existing_candidate(versions_dir))
                           THEN Ok(Unwrap(existing_candidate(versions_dir)))
                           ELSE IF IsSome(scan_versions_dir(versions_dir))
                           THEN Ok(Unwrap(scan_versions_dir(versions_dir)))
                           ELSE Err("Forge installer finished but version json not found"))
    /\ fipc' = "done"
    /\ UNCHANGED <<fmc, src_i, ftried, flast_err, forge_version, versions_dir, fvariants, notInstall>>

(***************************************************************************)
(* SpecInstall: one call of ensure_forge_installed                         *)
(***************************************************************************)
InitInstall ==
    /\ fmc \in {v1_14, v1_14_2, pinned_version}
    /\ fipc = "build"
    /\ src_i = 1
    /\ ftried = <<>>
    /\ flast_err = ""
    /\ forge_version = None
    /\ versions_dir \in {{}, {"mc-forge-build"}, {"forge-mc-build"},
                         {"mc-forge-build-client"}, {"mc-forge-otherbuild"}}
    /\ fvariants = <<>>
    /\ install_ret = None
    /\ IdleDedup /\ IdleMerge /\ IdleResolve /\ IdleBatch /\ IdleForge /\ IdleLaunch /\ IdleJava /\ IdleFabric /\ IdleProfile /\ IdleRules /\ IdlePhase /\ IdleRun

NextInstall ==
    \/ AskForgeSource
    \/ ForgeSourcesExhausted
    \/ ForgeAlreadyInstalled
    \/ PrepareInstaller
    \/ RunInstaller
    \/ VerifyInstall

SpecInstall == InitInstall /\ [][NextInstall]_vars

\* A run left the descriptor of the composed forge id in versions/.
ProducedDescriptor(run) ==
    run.started /\ IsSome(run.produced) /\ Unwrap(run.produced) \in Range(candidates)

\* C18: the installer is run with the three argument lists in their order;
\* no list is run after a run that left the expected descriptor, that run is
\* accepted, and when every run could be started the installation fails
\* only after all three lists were run without leaving the descriptor.
C18_VariantsUntilDescriptor ==
    /\ \A i \in 1..Len(fvariants) : fvariants[i].shape = installer_variants[i]
    /\ \A i \in 1..(Len(fvariants) - 1) : ~ProducedDescriptor(fvariants[i])
    /\ (fipc = "done" /\ fvariants # <<>> /\ \A i \in 1..Len(fvariants) : fvariants[i].started) =>
          /\ ProducedDescriptor(fvariants[Len(fvariants)]) => Unwrap(install_ret).ok
          /\ ~Unwrap(install_ret).ok =>
                /\ Len(fvariants) = Len(installer_variants)
                /\ \A i \in 1..Len(fvariants) : ~ProducedDescriptor(fvariants[i])

\* get_forge_recommended_version has returned and its sources are on record.
BuildResolved ==
    fipc = "cached" \/ (fipc = "done" /\ IsSome(forge_version) /\ ~Unwrap(forge_version).ok)

\* The builds the answer of a source lists for game version v.
BuildsFor(asked, v) ==
    IF asked.body = None THEN {}
    ELSE {e.build : e \in {x \in Range(Unwrap(asked.body)) : x.mc = v}}

\* C19: the sources are asked in the order promotions, maven-metadata,
\* directory listing; the build returned is one the earliest source with a
\* build for the requested game version lists for it, and no source is
\* asked after that one; when no source has a build for the version the
\* pinned build is returned for the pinned version and an error for any
\* other.
C19_EarliestSourceOrPinned ==
    BuildResolved =>
        LET n == Len(ftried)
            ret == Unwrap(forge_version)
        IN /\ \A i \in 1..n : ftried[i].kind = forge_sources[i]
           /\ IF \E i \in 1..n : BuildsFor(ftried[i], fmc) # {}
              THEN /\ BuildsFor(ftried[n], fmc) # {}
                   /\ \A i \in 1..(n - 1) : BuildsFor(ftried[i], fmc) = {}
                   /\ ret.ok
                   /\ Unwrap(ret.val) \in BuildsFor(ftried[n], fmc)
              ELSE /\ n = Len(forge_sources)
                   /\ IF fmc = pinned_version
                      THEN ret.ok /\ Unwrap(ret.val) = pinned_build
                      ELSE ~ret.ok

(***************************************************************************)
(* build_fabric_command (fabric_loader.rs)                                 *)
(***************************************************************************)
\* A library of a descriptor as build_fabric_command reads it: downloads is
\* None without a "downloads" object, Some(None) when that object has no
\* artifact or the artifact no path, Some(Some(path)) otherwise.
FabricLib(items, downloads, rules) ==
    [name |-> LibName(items, None), downloads |-> downloads, rules |-> rules]

\* Lines 87-93: the major of info.java_version, else the one the id of the
\* parent asks for, else the one the own id asks for.
fabric_required_java(info) ==
    IF IsSome(info.java_version) THEN Unwrap(info.java_version)
    ELSE IF IsSome(info.inherits_from)
         THEN get_required_java_version(Unwrap(info.inherits_from))
         ELSE get_required_java_version(info.id)

\* Lines 94-100: get_java_path_for_major, download_java when it finds none;
\* the error of download_java leaves the function.
FabricJava ==
    /\ fab_pc = "java"
    /\ \E outcome \in {"found", "downloaded", "failed"} :
          IF outcome = "failed"
          THEN /\ fabric_ret' = Some(Err("download_java"))
               /\ fab_pc' = "done"
               /\ UNCHANGED fab_java
          ELSE /\ fab_java' = Some([major |-> fabric_required_java(fab_info), by |-> outcome])
               /\ fab_pc' = "own"
               /\ UNCHANGED fabric_ret
    /\ UNCHANGED <<fab_info, fab_meta, fab_client, fab_disk, fab_queue, fab_jars, notFabric>>

\* Lines 102-105: versions/<info.id>/version.json, when it is there and
\* parses, gives the libraries to visit.
FabricOwnMeta ==
    /\ fab_pc = "own"
    /\ fab_queue' = unwrap_or(fab_meta.own, <<>>)
    /\ fab_pc' = "own_libs"
    /\ UNCHANGED <<fab_info, fab_meta, fab_client, fab_disk, fab_jars, fab_java, fabric_ret,
                   notFabric>>

\* Lines 107-111 and 119-121 (153-157, 165-167 for the parent): the path of
\* a library, None for one that is skipped.  parse_maven_name and maven_path
\* of fabric_loader.rs (lines 296-319) compute what those of the forge
\* command compute.
fabric_library_path(lib) ==
    IF ~check_rules(lib.rules) THEN None
    ELSE IF IsSome(lib.downloads) THEN Unwrap(lib.downloads)
    ELSE LET maven == parse_maven_name(lib.name)
         IN IF IsSome(maven) THEN maven_path(Unwrap(maven)) ELSE None

\* Lines 106-131 and 152-177, one library: a file that is missing is asked
\* for once, the result of download_file is dropped, and the path joins
\* jars when the file exists afterwards.
FabricLibrary ==
    /\ fab_pc \in {"own_libs", "parent_libs"}
    /\ fab_queue # <<>>
    /\ LET p == fabric_library_path(Head(fab_queue))
       IN IF p = None
          THEN UNCHANGED <<fab_disk, fab_jars>>
          ELSE /\ \E fetched \in BOOLEAN :
                     fab_disk' = IF ~path_exists(fab_disk, Unwrap(p)) /\ fetched
                                 THEN fab_disk \cup {normalize_path_for_comparison(Unwrap(p))}
                                 ELSE fab_disk
               /\ fab_jars' = IF path_exists(fab_disk', Unwrap(p))
                              THEN Append(fab_jars, Unwrap(p)) ELSE fab_jars
    /\ fab_queue' = Tail(fab_queue)
    /\ UNCHANGED <<fab_pc, fab_info, fab_meta, fab_client, fab_java, fabric_ret, notFabric>>

\* Lines 137-151: with inherits_from, the descriptor of the parent
\* (version.json or <id>.json) gives the next libraries to visit.
FabricParentMeta ==
    /\ fab_pc = "own_libs"
    /\ fab_queue = <<>>
    /\ fab_queue' = IF IsSome(fab_info.inherits_from)
                    THEN unwrap_or(fab_meta.parent, <<>>) ELSE <<>>
    /\ fab_pc' = "parent_libs"
    /\ UNCHANGED <<fab_info, fab_meta, fab_client, fab_disk, fab_jars, fab_java, fabric_ret,
                   notFabric>>

\* A check of the classpath that passes whatever it holds.
has_fabric_loader_unchecked(js) == TRUE

\* Lines 188-190.
has_fabric_loader(js) == \E i \in 1..Len(js) : file_name_contains(js[i], "fabric-loader")

\* Lines 195-197.
has_jopt(js) == \E i \in 1..Len(js) : file_name_contains(js[i], "jopt-simple")

\* Line 200.
jopt_fallback == Path(<<"net.sf.jopt-simple", "jopt-simple", "5.0.4">>,
                      <<"jopt-simple", "5.0.4", "", "jar">>, FALSE)

missing_fabric_loader == "Falta la libreria fabric-loader en el classpath"

\* Lines 182-277: client.jar first or an error, the test for the loader,
\* the jopt-simple fallback, and the command.
FabricCommand ==
    /\ fab_pc = "parent_libs"
    /\ fab_queue = <<>>
    /\ LET js == <<client_path>> \o fab_jars
       IN IF ~fab_client
          THEN /\ fabric_ret' = Some(Err("client.jar missing in instance"))
               /\ UNCHANGED <<fab_jars, fab_disk>>
          ELSE IF ~has_fabric_loader(js)
          THEN /\ fabric_ret' = Some(Err(missing_fabric_loader))
               /\ fab_jars' = js
               /\ UNCHANGED fab_disk
          ELSE /\ \E fetched \in BOOLEAN :
                     fab_disk' = IF /\ ~has_jopt(js)
                                    /\ ~path_exists(fab_disk, jopt_fallback)
                                    /\ fetched
                                 THEN fab_disk \cup {jopt_fallback} ELSE fab_disk
               /\ fab_jars' = IF ~has_jopt(js) /\ path_exists(fab_disk', jopt_fallback)
                              THEN Append(js, jopt_fallback) ELSE js
               /\ fabric_ret' = Some(Ok([java      |-> Unwrap(fab_java),
                                         classpath |-> fab_jars',
                                         add_opens |-> Unwrap(fab_java).major >= 16]))
    /\ fab_pc' = "done"
    /\ UNCHANGED <<fab_info, fab_meta, fab_client, fab_queue, fab_java, notFabric>>

\* The libraries of the explored descriptors: the loader by its maven name,
\* by an artifact path spelled with capitals, allowed on Windows only,
\* with a downloads object that has no artifact, and under a name that does
\* not parse; two libraries that are not the loader.
loader_items == <<"net.fabricmc", "fabric-loader", "0.15">>
loader_path == Path(loader_items, <<"fabric-loader", "0.15", "", "jar">>, TRUE)
fabric_loader == FabricLib(loader_items, None, None)
fabric_loader_artifact == FabricLib(loader_items, Some(Some(loader_path)), None)
fabric_loader_windows == FabricLib(loader_items, None, AllowOnWindows)
fabric_loader_no_artifact == FabricLib(loader_items, Some(None), None)
fabric_loader_unparsable == FabricLib(<<"fabric-loader", "0.15">>, None, None)
intermediary == FabricLib(<<"net.fabricmc", "intermediary", "1.20.1">>, None, None)
jopt_simple == FabricLib(<<"net.sf.jopt-simple", "jopt-simple", "5.0.4">>,
                         Some(Some(jopt_fallback)), None)
lwjgl == FabricLib(<<"org.lwjgl", "lwjgl", "3.3.1">>, None, None)

OwnMetas ==
    { None, Some(<<>>),
      Some(<<fabric_loader, intermediary>>),
      Some(<<intermediary, fabric_loader_artifact>>),
      Some(<<fabric_loader_windows, intermediary>>),
      Some(<<fabric_loader_no_artifact, intermediary>>),
      Some(<<fabric_loader_unparsable>>),
      Some(<<intermediary>>) }

ParentMetas == { None, Some(<<jopt_simple, lwjgl>>), Some(<<lwjgl>>) }

fabric_id ==
    <<"f", "a", "b", "r", "i", "c", "-", "l", "o", "a", "d", "e", "r", "-",
      "0", ".", "1", "5", "-">> \o version_id(20, Some(1))

FabricInfos ==
    { [id |-> fabric_id, inherits_from |-> Some(version_id(20, Some(1))), java_version |-> None],
      [id |-> fabric_id, inherits_from |-> Some(version_id(20, Some(1))), java_version |-> Some(21)],
      [id |-> fabric_id, inherits_from |-> None, java_version |-> None] }

\* Every library file of the explored descriptors.
AllFabricFiles ==
    {Unwrap(fabric_library_path(l)) :
        l \in {x \in UNION {Range(Unwrap(m)) : m \in (OwnMetas \cup ParentMetas) \ {None}} :
                  fabric_library_path(x) # None}}

InitFabric ==
    /\ fab_pc = "java"
    /\ fab_info \in FabricInfos
    /\ fab_meta \in [own : OwnMetas, parent : ParentMetas]
    /\ fab_client \in BOOLEAN
    /\ host \in {[os |-> "windows", arch |-> "x64"], [os |-> "linux", arch |-> "x64"]}
    /\ fab_disk \in {{}, {normalize_path_for_comparison(f) : f \in AllFabricFiles}}
    /\ fab_queue = <<>>
    /\ fab_jars = <<>>
    /\ fab_java = None
    /\ fabric_ret = None
    /\ IdleForgeCommand
    /\ IdleDedup /\ IdleMerge /\ IdleResolve /\ IdleBatch /\ IdleLaunch /\ IdleJava /\ IdleInstall /\ IdleProfile /\ IdleRules /\ IdlePhase /\ IdleRun

NextFabric ==
    \/ FabricJava
    \/ FabricOwnMeta
    \/ FabricLibrary
    \/ FabricParentMeta
    \/ FabricCommand

SpecFabric == InitFabric /\ [][NextFabric]_vars

\* The loader's own library: the jar of artifact fabric-loader.
IsFabricLoaderJar(p) == p.file[1] = "fabric-loader"

LoaderOnClasspath(js) == \E i \in 1..Len(js) : IsFabricLoaderJar(js[i])

\* C20: a command is returned only when the jar of fabric-loader is on its
\* classpath; when java and client.jar are there and no visited library
\* brought that jar, the call returns the error about the missing loader and
\* no command.
C20_FabricLoaderRequired ==
    (fab_pc = "done") =>
        LET ret == Unwrap(fabric_ret)
        IN /\ ret.ok => LoaderOnClasspath(Unwrap(ret.val).classpath)
           /\ (IsSome(fab_java) /\ fab_client /\ ~LoaderOnClasspath(fab_jars)) =>
                 /\ ~ret.ok
                 /\ ret.val = None
                 /\ ret.err = missing_fabric_loader

\* The loader is listed but its jar could not be brought to disk while
\* another library is on the classpath, and the call has returned the error.
C20_Witness ==
    /\ fab_pc = "done"
    /\ IsSome(fab_java) /\ fab_client
    /\ Len(fab_jars) >= 2
    /\ ~LoaderOnClasspath(fab_jars)
    /\ fab_meta.own = Some(<<fabric_loader, intermediary>>)
    /\ ~Unwrap(fabric_ret).ok

(***************************************************************************)
(* SpecProfile: the merge of the fabric profile over its resolved parent   *)
(* in prepare_and_launch                                                   *)
(***************************************************************************)
\* launch_logic.rs lines 233-242: every Option of the child is filled from
\* the parent when the child has none, arguments as a whole among them; the
\* libraries are the parent's then the child's, deduplicated.
fabric_merge_with_parent(child, parent) ==
    [child EXCEPT
        !.arguments = fill_from_parent(child.arguments, parent.arguments),
        !.minecraft_arguments = fill_from_parent(child.minecraft_arguments, parent.minecraft_arguments),
        !.asset_index = fill_from_parent(child.asset_index, parent.asset_index),
        !.assets = fill_from_parent(child.assets, parent.assets),
        !.downloads = fill_from_parent(child.downloads, parent.downloads),
        !.java_version = fill_from_parent(child.java_version, parent.java_version),
        !.logging = fill_from_parent(child.logging, parent.logging),
        !.libraries = deduplicate_libraries(parent.libraries \o child.libraries)]

\* Lines 228-245: the profile is merged when it names a parent and is the
\* value of the block as it came otherwise.
MergeFabricProfile ==
    /\ version_info = None
    /\ IsSome(fabric_child)
    /\ version_info' =
          Some(IF IsSome(Unwrap(fabric_child).inherits_from)
               THEN fabric_merge_with_parent(Unwrap(fabric_child), Unwrap(fabric_parent))
               ELSE Unwrap(fabric_child))
    /\ UNCHANGED <<fabric_child, fabric_parent, notProfile>>

\* A profile with and without a parent, with and without logging.
FabricProfiles ==
    { [d EXCEPT !.logging = l, !.inherits_from = i] :
        d \in DescriptorsOf("child", Some("parent"), ChildLibs),
        l \in {None, Some("child")},
        i \in {None, Some("parent")} }

InitProfile ==
    /\ fabric_child \in {Some(d) : d \in FabricProfiles}
    /\ fabric_parent \in {Some([d EXCEPT !.logging = Some("parent")]) :
                            d \in DescriptorsOf("parent", None, ParentLibs)}
    /\ version_info = None
    /\ IdleDedup /\ IdleMerge /\ IdleResolve /\ IdleBatch /\ IdleForge /\ IdleLaunch /\ IdleJava /\ IdleInstall /\ IdleFabric /\ IdleRules /\ IdlePhase /\ IdleRun

NextProfile == MergeFabricProfile

SpecProfile == InitProfile /\ [][NextProfile]_vars

\* C21: the fabric profile merged over its resolved parent has each scalar
\* from the child when the child has it and from the parent otherwise, each
\* argument list made of the parent's list followed by the child's, and the
\* libraries of parent then child deduplicated: what merge_with_parent
\* gives for the same pair.
C21_SameMergeRule ==
    (IsSome(version_info) /\ IsSome(Unwrap(fabric_child).inherits_from)) =>
        LET c == Unwrap(fabric_child)
            p == Unwrap(fabric_parent)
            m == Unwrap(version_info)
            r == merge_with_parent(c, p)
        IN /\ \A f \in ScalarFields : m[f] = IF IsSome(c[f]) THEN c[f] ELSE p[f]
           /\ \A side \in {"game", "jvm"} :
                 ArgList(m, side) = ArgList(p, side) \o ArgList(c, side)
           /\ m.libraries = deduplicate_libraries(p.libraries \o c.libraries)
           /\ \A f \in ScalarFields \cup {"arguments", "libraries"} : m[f] = r[f]

(***************************************************************************)
(* SpecRules: check_rules on every list of at most MaxRules rules, on four *)
(* hosts                                                                   *)
(***************************************************************************)
MaxRules == 2

\* The os clauses explored: none, a name alone, an arch alone, both, and a
\* clause that names neither.
OsClauses ==
    { None,
      Some([name |-> Some("windows"), arch |-> None]),
      Some([name |-> Some("linux"), arch |-> None]),
      Some([name |-> None, arch |-> Some("x86")]),
      Some([name |-> Some("linux"), arch |-> Some("x64")]),
      Some([name |-> None, arch |-> None]) }

RulePool == [action : {"allow", "disallow"}, os : OsClauses]

RuleHosts ==
    { [os |-> "windows", arch |-> "x64"], [os |-> "linux", arch |-> "x64"],
      [os |-> "linux", arch |-> "x86"], [os |-> "osx", arch |-> "arm64"] }

CheckRules ==
    /\ IsSome(rule_list)
    /\ rule_verdict = None
    /\ rule_verdict' = Some(check_rules(Unwrap(rule_list)))
    /\ UNCHANGED <<rule_list, notRules>>

InitRules ==
    /\ rule_list \in {Some(l) : l \in {None} \cup {Some(r) : r \in SeqsUpTo(RulePool, MaxRules)}}
    /\ rule_verdict = None
    /\ host \in RuleHosts
    /\ IdleForgeCommand
    /\ IdleDedup /\ IdleMerge /\ IdleResolve /\ IdleBatch /\ IdleLaunch /\ IdleJava /\ IdleInstall /\ IdleFabric /\ IdleProfile /\ IdlePhase /\ IdleRun

NextRules == CheckRules

SpecRules == InitRules /\ [][NextRules]_vars

\* The clause of the rule holds on the host: no clause, or a clause whose
\* name and arch, where given, are those of the host.
PlatformMatches(rule) ==
    \/ rule.os = None
    \/ /\ Unwrap(rule.os).name \in {None, Some(host.os)}
       /\ Unwrap(rule.os).arch \in {None, Some(host.arch)}

\* C22: without rules (no list, or an empty one) the verdict is allow;
\* otherwise it is allow exactly when some rule matches the host and the
\* last of the matching rules has action allow.
C22_LastMatchingRuleWins ==
    IsSome(rule_verdict) =>
        LET given == Unwrap(rule_list)
            rs == IF given = None THEN <<>> ELSE Unwrap(given)
            matching == {i \in 1..Len(rs) : PlatformMatches(rs[i])}
        IN Unwrap(rule_verdict) =
              IF rs = <<>> THEN TRUE
              ELSE /\ matching # {}
                   /\ \E i \in matching :
                         /\ \A j \in matching : j <= i
                         /\ rs[i].action = "allow"

\* An allow rule that matches the host is followed by a matching disallow
\* rule, and the verdict is out.
C22_Witness ==
    /\ IsSome(rule_verdict)
    /\ Unwrap(rule_verdict) = FALSE
    /\ LET rs == Unwrap(Unwrap(rule_list))
       IN /\ Len(rs) = 2
          /\ PlatformMatches(rs[1]) /\ rs[1].action = "allow"
          /\ PlatformMatches(rs[2]) /\ rs[2].action = "disallow"
          /\ IsSome(rs[2].os)

(***************************************************************************)
(* SpecPhase: the library loop that ends download_vanilla, download_fabric *)
(* and download_forge                                                      *)
(***************************************************************************)
\* A library as the three loops read it: downloads is None without a
\* "downloads" object, Some(None) without an artifact path, Some(Some(path))
\* with one; natives holds the os names of lib.natives.
PhaseLib(items, downloads, rules, natives) ==
    [name |-> LibName(items, None), downloads |-> downloads, rules |-> rules,
     natives |-> natives]

Tried(path, kind, ok) == [path |-> path, kind |-> kind, ok |-> ok]

download_failed == "download_file failed"

\* vanilla_loader.rs lines 58-69: a library with an artifact path is
\* fetched and the error of download_file leaves the function; any other
\* library is passed over.
VanillaPhaseLibrary ==
    /\ ph_adapter = "vanilla" /\ ph_ret = None /\ ph_queue # <<>>
    /\ LET lib == Head(ph_queue)
       IN IF /\ check_rules(lib.rules)
             /\ IsSome(lib.downloads) /\ IsSome(Unwrap(lib.downloads))
          THEN \E ok \in BOOLEAN :
                  /\ ph_tried' = Append(ph_tried,
                                        Tried(Unwrap(Unwrap(lib.downloads)), "artifact", ok))
                  /\ ph_ret' = IF ok THEN None ELSE Some(Err(download_failed))
          ELSE UNCHANGED <<ph_tried, ph_ret>>
    /\ ph_queue' = Tail(ph_queue)
    /\ UNCHANGED <<ph_adapter, notPhase>>

\* fabric_loader.rs lines 50-71: with a downloads object the artifact is
\* fetched and an error leaves the function; without one the maven path is
\* fetched and the result of download_file is dropped.
FabricPhaseLibrary ==
    /\ ph_adapter = "fabric" /\ ph_ret = None /\ ph_queue # <<>>
    /\ LET lib == Head(ph_queue)
           maven == parse_maven_name(lib.name)
       IN IF ~check_rules(lib.rules) THEN UNCHANGED <<ph_tried, ph_ret>>
          ELSE IF IsSome(lib.downloads)
          THEN IF IsSome(Unwrap(lib.downloads))
               THEN \E ok \in BOOLEAN :
                       /\ ph_tried' = Append(ph_tried,
                                             Tried(Unwrap(Unwrap(lib.downloads)), "artifact", ok))
                       /\ ph_ret' = IF ok THEN None ELSE Some(Err(download_failed))
               ELSE UNCHANGED <<ph_tried, ph_ret>>
          ELSE IF IsSome(maven)
               THEN \E ok \in BOOLEAN :
                       /\ ph_tried' = Append(ph_tried,
                                             Tried(Unwrap(maven_path(Unwrap(maven))), "artifact", ok))
                       /\ UNCHANGED ph_ret
               ELSE UNCHANGED <<ph_tried, ph_ret>>
    /\ ph_queue' = Tail(ph_queue)
    /\ UNCHANGED <<ph_adapter, notPhase>>

\* The path of the natives jar of a library for the host: the artifact
\* with the classifier of the os.
natives_path(p) == [p EXCEPT !.file[3] = "natives-" \o host.os]

\* forge_loader.rs lines 132-182: the artifact (by its path, or by the
\* maven path without a downloads object) and then the natives of the host
\* are fetched, and every result of download_file is dropped.
ForgePhaseLibrary ==
    /\ ph_adapter = "forge" /\ ph_ret = None /\ ph_queue # <<>>
    /\ LET lib == Head(ph_queue)
           maven == parse_maven_name(lib.name)
           main == IF IsSome(lib.downloads) THEN Unwrap(lib.downloads)
                   ELSE IF IsSome(maven) THEN maven_path(Unwrap(maven)) ELSE None
           wants_natives == /\ host.os \in lib.natives
                            /\ IsSome(lib.downloads) \/ IsSome(maven)
           base == IF IsSome(main) THEN Unwrap(main) ELSE Unwrap(maven_path(Unwrap(maven)))
       IN IF ~check_rules(lib.rules) THEN UNCHANGED ph_tried
          ELSE \E ok \in BOOLEAN, ok_natives \in BOOLEAN :
                  ph_tried' = ph_tried
                     \o (IF IsSome(main) THEN <<Tried(Unwrap(main), "artifact", ok)>> ELSE <<>>)
                     \o (IF wants_natives
                         THEN <<Tried(natives_path(base), "natives", ok_natives)>> ELSE <<>>)
    /\ ph_queue' = Tail(ph_queue)
    /\ UNCHANGED <<ph_adapter, ph_ret, notPhase>>

\* `Ok(info)` at the end of the three functions.
PhaseReturn ==
    /\ ph_adapter # "" /\ ph_ret = None /\ ph_queue = <<>>
    /\ ph_ret' = Some(Ok("info"))
    /\ UNCHANGED <<ph_adapter, ph_queue, ph_tried, notPhase>>

\* A library with an artifact path, one known by its maven name alone, one
\* with natives for Linux, and one that only Windows is allowed.
PhasePool ==
    { PhaseLib(<<"g", "a", "1">>,
               Some(Some(Path(<<"g", "a", "1">>, <<"a", "1", "", "jar">>, FALSE))), None, {}),
      PhaseLib(<<"g", "b", "1">>, None, None, {}),
      PhaseLib(<<"g", "n", "1">>, None, None, {"linux"}),
      PhaseLib(<<"g", "w", "1">>, None, AllowOnWindows, {}) }

InitPhase ==
    /\ ph_adapter \in {"vanilla", "fabric", "forge"}
    /\ ph_queue \in SeqsUpTo(PhasePool, MaxLibs)
    /\ ph_tried = <<>>
    /\ ph_ret = None
    /\ host \in {[os |-> "windows", arch |-> "x64"], [os |-> "linux", arch |-> "x64"]}
    /\ IdleForgeCommand
    /\ IdleDedup /\ IdleMerge /\ IdleResolve /\ IdleBatch /\ IdleLaunch /\ IdleJava /\ IdleInstall /\ IdleFabric /\ IdleProfile /\ IdleRules /\ IdleRun

NextPhase ==
    \/ VanillaPhaseLibrary
    \/ FabricPhaseLibrary
    \/ ForgePhaseLibrary
    \/ PhaseReturn

SpecPhase == InitPhase /\ [][NextPhase]_vars

\* The transfers of library artifacts that failed.
FailedArtifacts == {i \in 1..Len(ph_tried) : ph_tried[i].kind = "artifact" /\ ~ph_tried[i].ok}

\* C23: in the library loop of each adapter nothing is transferred after an
\* artifact whose transfer failed, and once such a transfer has failed the
\* function returns an error with a message and never Ok.
C23_FailedLibraryAborts ==
    /\ \A i \in FailedArtifacts : i = Len(ph_tried)
    /\ (FailedArtifacts # {} /\ IsSome(ph_ret)) =>
          /\ ~Unwrap(ph_ret).ok
          /\ Unwrap(ph_ret).err # ""

(***************************************************************************)
(* The module path of build_forge_command and the three core coordinates   *)
(***************************************************************************)
CoreCoordinates == {<<"cpw.mods", a>> : a \in ModulePathArtifacts}

\* The core coordinates among the parsable names of the libraries.
ListedCore ==
    {<<Unwrap(parse_maven_name(forge_libs[i].name)).group,
       Unwrap(parse_maven_name(forge_libs[i].name)).artifact>> :
        i \in {j \in 1..Len(forge_libs) : IsSome(parse_maven_name(forge_libs[j].name))}}
    \cap CoreCoordinates

\* C25 (as claimed): the module path written by build_forge_command holds
\* the secure-jar handler, the module launcher and the bootstrap launcher,
\* for every descriptor.
C25_CoreOnModulePath ==
    fpc = "done" =>
        \A c \in CoreCoordinates : \E p \in WrittenModulePath : Coordinate(p) = c

\* C25: the module path written by build_forge_command holds the maven path
\* of every library of the descriptor that names one of the three core
\* coordinates, whatever its rules and whether or not its jar is on disk,
\* and holds jars of no other coordinate; a descriptor that lists none of
\* them gets no module path.
C25_ListedCoreOnModulePath ==
    fpc = "done" =>
        /\ \A i \in 1..Len(forge_libs) :
              LET m == parse_maven_name(forge_libs[i].name)
              IN (IsSome(m) /\ <<Unwrap(m).group, Unwrap(m).artifact>> \in CoreCoordinates) =>
                    Unwrap(maven_path(Unwrap(m))) \in WrittenModulePath
        /\ {Coordinate(p) : p \in WrittenModulePath} = ListedCore
        /\ (ListedCore = {}) <=> (args_file.p = None)

\* The descriptor lists the three core coordinates, the module launcher in
\* a version that Linux is not allowed, no module jar is on disk, and the
\* three are on the module path written on Linux.
C25_Witness ==
    /\ fpc = "done"
    /\ host.os = "linux"
    /\ ListedCore = CoreCoordinates
    /\ \E i \in 1..Len(forge_libs) : ~check_rules(forge_libs[i].rules)
    /\ \A p \in WrittenModulePath : ~path_exists(jars, p)
    /\ {Coordinate(p) : p \in WrittenModulePath} = CoreCoordinates

(***************************************************************************)
(* SpecCycle: resolve_complete_version_info over inheritsFrom links with   *)
(* and without a cycle, the recursion followed down to MaxDepth waiting    *)
(* calls                                                                   *)
(***************************************************************************)
MaxDepth == 6

CycleLinks ==
    { [child |-> Some("mid"), mid |-> Some("vanilla"), vanilla |-> None],
      [child |-> None, mid |-> None, vanilla |-> None],
      [child |-> Some("child"), mid |-> None, vanilla |-> None],
      [child |-> Some("mid"), mid |-> Some("child"), vanilla |-> None],
      [child |-> Some("mid"), mid |-> Some("vanilla"), vanilla |-> Some("mid")] }

\* A well-formed descriptor of id, and the same without mainClass.
CycleDocs(id, inherits) ==
    LET good == to_json(VersionInfo(id, inherits, [f \in ScalarFields |-> Some(id)], None, None,
                                    << Lib(<<"g", "a", id>>, None, None, None) >>))
    IN {good, [good EXCEPT !.mainClass = None]}

InitCycle ==
    /\ manifest \in {{"vanilla"}, AllIds}
    /\ \E inh \in CycleLinks :
          remote \in [child : CycleDocs("child", inh.child),
                      mid : CycleDocs("mid", inh.mid),
                      vanilla : CycleDocs("vanilla", inh.vanilla)]
    /\ \E cached \in {{}, {"child", "mid"}, AllIds} :
          disk = [i \in AllIds |-> IF i \in cached THEN Some(remote[i]) ELSE None]
    /\ rstack = <<>>
    /\ rid = "child"
    /\ rpc = "load"
    /\ rret = None
    /\ requests = 0
    /\ stage = "resolve"
    /\ rpass = 1 /\ rfirst = None
    /\ rlog = <<>>
    /\ IdleDedup /\ IdleMerge /\ IdleBatch /\ IdleForge /\ IdleLaunch /\ IdleJava /\ IdleInstall /\ IdleFabric /\ IdleProfile /\ IdleRules /\ IdlePhase /\ IdleRun

\* The two loads that can start another call, followed while fewer than
\* MaxDepth calls are waiting.
RecurseFromDisk == Len(rstack) < MaxDepth /\ LoadFromDisk
RecurseFetched == Len(rstack) < MaxDepth /\ LoadFetched

NextCycle ==
    \/ RecurseFromDisk
    \/ RecurseFetched
    \/ LoadNotFound
    \/ LoadFetchFails
    \/ ReturnToCaller
    \/ ResolveReturns

\* Every call that can take a step takes one.
SpecCycle == InitCycle /\ [][NextCycle]_vars /\ WF_vars(NextCycle)

RECURSIVE chain_ends(_, _)
\* Following inheritsFrom from id for n links reaches a descriptor without
\* a parent.
chain_ends(id, n) ==
    \/ remote[id].inheritsFrom = None
    \/ n > 0 /\ chain_ends(Unwrap(remote[id].inheritsFrom), n - 1)

\* No identifier repeats on the chain of "child".
NoRepeat == chain_ends("child", Cardinality(AllIds) - 1)

\* A load has returned a descriptor whose parent is the id of that load or
\* of an earlier one: the links have led back to an id being resolved.
LedBack ==
    \E i, j \in 1..Len(rlog) :
        /\ i <= j
        /\ IsSome(rlog[j].ret)
        /\ Unwrap(rlog[j].ret).inherits_from = Some(rlog[i].id)

\* C26: on a chain where no identifier repeats the resolution returns (a
\* descriptor or an error); once the links have led back to an identifier
\* that is being resolved, the resolution has neither result nor error and
\* its next step is one more successful load, at every depth.
C26_ReturnsUnlessCyclic ==
    /\ NoRepeat => <>(rpc = "done")
    /\ [](LedBack =>
             /\ rpc = "load"
             /\ rret = None
             /\ IsSome(disk[rid])
             /\ from_json(Unwrap(disk[rid])).ok)

\* The chain child, mid, child, ... has been followed to MaxDepth waiting
\* calls, the first two descriptors fetched and the rest read from disk.
C26_Witness ==
    /\ LedBack
    /\ Len(rstack) = MaxDepth
    /\ rstack[1].id = "child" /\ rstack[2].id = "mid" /\ rstack[3].id = "child"
    /\ rlog[1].gets = 1 /\ rlog[2].gets = 1 /\ rlog[3].gets = 0
    /\ rret = None

(***************************************************************************)
(* The mutexes of a batch and the transfers                                *)
(***************************************************************************)
\* The worker has a request out or is receiving its answer.
Transferring(self) == wk[self].pc \in {"send", "receive"}

OnPath(self) == wk[self].pc \in {"send", "receive", "verify", "remove"}

\* C28: no two workers of a batch are on one destination path at the same
\* time, also when two asset names share a hash or two mod URLs end in the
\* same file name.
C28_OneWorkerPerPath ==
    \A a, b \in Workers :
        (batch.kind \in {"assets", "mods"} /\ a # b /\ OnPath(a) /\ OnPath(b)) =>
            task_path(wk[a].task) # task_path(wk[b].task)

(***************************************************************************)
(* The queue, the counter and the return of a batch                        *)
(***************************************************************************)
\* The threads run until they leave their loop and the caller runs until
\* it has joined them: no step that can be taken is put off for ever.
SpecBatchFair == InitBatch /\ [][NextBatch]_vars /\ WF_vars(NextBatch)

\* The worker has a task it took from the queue and has not finished.
HasTask(self) == wk[self].pc \notin {"unspawned", "check", "pop", "exit", "emit"}

\* The tasks still queued are those never taken, each once and in order,
\* and no two workers work on one task.
QueueSound ==
    /\ \A i, j \in 1..Len(tasks) : i < j => tasks[i] < tasks[j]
    /\ \A t \in TaskIds : stat[t].res = "queued" <=> t \in Range(tasks)
    /\ \A a, b \in Workers :
         (a # b /\ HasTask(a) /\ HasTask(b)) => wk[a].task # wk[b].task
    /\ \A self \in Workers : HasTask(self) => stat[wk[self].task].res = "running"

\* A task that left the queue never comes back to it, and a step takes at
\* most one task from the queue.
DequeuedOnce ==
    /\ \A t \in TaskIds : stat[t].res # "queued" => stat'[t].res # "queued"
    /\ Cardinality({t \in TaskIds : stat[t].res = "queued" /\ stat'[t].res # "queued"}) <= 1

\* The counter is the number of tasks processed successfully, and Ok is
\* returned only when that is every task of the batch.
CounterSound ==
    /\ done = Cardinality({t \in TaskIds : stat[t].res = "ok"})
    /\ done <= Len(batch.paths)
    /\ (Returned /\ Result.ok) =>
          /\ done = Len(batch.paths)
          /\ \A t \in TaskIds : stat[t].res = "ok"

\* C29: each queued task is dequeued by at most one worker, the completed
\* counter never exceeds the number of queued tasks, the batch returns Ok
\* only when every task was processed successfully exactly once, and the
\* batch returns in the end.
C29_EachTaskOnceAndReturns ==
    /\ [](QueueSound /\ CounterSound)
    /\ [][DequeuedOnce]_vars
    /\ <>Returned

\* A batch of several tasks returned Ok with both workers having taken
\* tasks, one of them after a failed attempt.
C29_Witness ==
    /\ batch # <<>> /\ Returned /\ Result.ok
    /\ Len(batch.paths) = MaxTasks /\ done = MaxTasks
    /\ \E t, u \in TaskIds : t # u /\ stat[t].gets > 1 /\ stat[u].gets = 1

\* ---------------------------------------------------------------------
\* The progress events of one prepare run
\* ---------------------------------------------------------------------

\* The largest number of objects in the asset index of a run.
MaxAssets == 2

\* The events download_assets_parallel sends when every task succeeds,
\* in the order of the counter: one at every fiftieth task and at the last.
\* A batch that fails with fewer than fifty tasks sends none.
RECURSIVE assets_events_from(_, _)
assets_events_from(current, total) ==
    IF current > total THEN <<>>
    ELSE (IF current % progress_every("assets") = 0 \/ current = total
          THEN <<percent_base("assets") + (((current * percent_span("assets")) \div total) % 256)>>
          ELSE <<>>) \o assets_events_from(current + 1, total)
assets_events(total) == assets_events_from(1, total)

\* How far a loader's download function gets: it returns Err at the named
\* step, or Ok.
VanillaStops(e) ==
    {"resolve", "ok"}
        \cup (IF e.downloads THEN {"client"} ELSE {})
        \cup (IF IsSome(e.assets) THEN {"index"} ELSE {})
        \cup (IF IsSome(e.assets) /\ Unwrap(e.assets) > 0 THEN {"assets"} ELSE {})
        \cup (IF e.libraries THEN {"library"} ELSE {})

\* download_vanilla: "cliente" 55, the client, the asset index and the
\* assets batch, "librerias" 65, the libraries.
download_vanilla_events(e, stop) ==
    (IF stop = "resolve" THEN <<>> ELSE <<55>>)
        \o (IF stop \in {"library", "ok"} /\ IsSome(e.assets)
            THEN assets_events(Unwrap(e.assets)) ELSE <<>>)
        \o (IF stop \in {"library", "ok"} THEN <<65>> ELSE <<>>)

\* download_fabric: download_vanilla whole, "fabric" 60, the profile, and
\* "librerias" 70 when the profile lists libraries.
FabricStops(e) == {"profile", "ok"} \cup (IF e.profile_libraries THEN {"library"} ELSE {})
download_fabric_events(e, stop) ==
    download_vanilla_events(e, "ok") \o <<60>>
        \o (IF stop \in {"library", "ok"} /\ e.profile_libraries THEN <<70>> ELSE <<>>)

\* download_forge: "cliente" 55 when the descriptor has downloads, "assets"
\* 60, the batch and "assets" 75 when it has an asset index, "librerias" 65
\* when it lists libraries; no library failure ends it.
ForgeStops(e) ==
    {"resolve", "ok"}
        \cup (IF e.downloads THEN {"client"} ELSE {})
        \cup (IF IsSome(e.assets) THEN {"index"} ELSE {})
        \cup (IF IsSome(e.assets) /\ Unwrap(e.assets) > 0 THEN {"assets"} ELSE {})
download_forge_events(e, stop) ==
    (IF e.downloads /\ stop # "resolve" THEN <<55>> ELSE <<>>)
        \o (IF IsSome(e.assets) /\ stop \in {"assets", "ok"} THEN <<60>> ELSE <<>>)
        \o (IF IsSome(e.assets) /\ stop = "ok"
            THEN assets_events(Unwrap(e.assets)) \o <<75>> ELSE <<>>)
        \o (IF e.libraries /\ stop = "ok" THEN <<65>> ELSE <<>>)

\* prepare_and_launch returns through `?` or map_err.
RunErr ==
    /\ run_pc' = "returned"
    /\ run_ret' = Some(FALSE)

\* `emit(.., "iniciando", 0, ..)`
EmitStart ==
    /\ run_pc = "start"
    /\ sink' = Append(sink, 0)
    /\ run_pc' = "manifest"
    /\ UNCHANGED <<run_env, run_ret, notRun>>

\* fetch_manifest_with_fallback and `emit(.., "manifest", 10, ..)`
FetchManifest ==
    /\ run_pc = "manifest"
    /\ \E fetched \in BOOLEAN :
         IF fetched
         THEN /\ sink' = Append(sink, 10)
              /\ run_pc' = IF run_env.loader = "forge" THEN "ensure" ELSE "resolve"
              /\ run_ret' = run_ret
         ELSE RunErr /\ sink' = sink
    /\ UNCHANGED <<run_env, notRun>>

\* ensure_forge_installed: nothing is sent when the version is on disk;
\* otherwise "forge" 22, the installer download, "forge" 24, download_java
\* ("java" 0, then "java" 50 once the archive is there) when no runtime is
\* found, and the installer run.
EnsureStops(e) == {"installer", "run", "ok"} \cup (IF e.java THEN {} ELSE {"java", "unpack"})
ensure_forge_events(e, stop) ==
    <<22>>
        \o (IF stop = "installer" THEN <<>> ELSE <<24>>)
        \o (IF ~e.java /\ stop # "installer" THEN <<0>> ELSE <<>>)
        \o (IF ~e.java /\ stop \in {"unpack", "run", "ok"} THEN <<50>> ELSE <<>>)
EnsureForgeInstalled ==
    /\ run_pc = "ensure"
    /\ IF run_env.forge
       THEN /\ run_pc' = "resolve"
            /\ UNCHANGED <<run_env, sink, run_ret>>
       ELSE \E stop \in EnsureStops(run_env) :
              /\ sink' = sink \o ensure_forge_events(run_env, stop)
              /\ IF stop = "ok"
                 THEN /\ run_pc' = "resolve"
                      /\ run_env' = [run_env EXCEPT !.forge = TRUE, !.java = TRUE]
                      /\ run_ret' = run_ret
                 ELSE /\ RunErr
                      /\ run_env' = run_env
    /\ UNCHANGED notRun

\* The version info of the run (for fabric the profile and its parent) and
\* `emit(.., "version", 20, ..)`
ResolveVersion ==
    /\ run_pc = "resolve"
    /\ \E has_info \in BOOLEAN :
         IF has_info
         THEN /\ sink' = Append(sink, 20)
              /\ run_pc' = "download"
              /\ run_ret' = run_ret
         ELSE RunErr /\ sink' = sink
    /\ UNCHANGED <<run_env, notRun>>

\* The loader's download function returned: on Ok the command is built
\* next, which sends nothing.
AfterDownload(stop) ==
    IF stop = "ok"
    THEN run_pc' = "build" /\ run_ret' = run_ret
    ELSE RunErr

\* `if loader...unwrap_or(true) { download_vanilla(..)?; .. }`
VanillaBranch ==
    /\ run_pc = "download"
    /\ run_env.loader = "vanilla"
    /\ \E stop \in VanillaStops(run_env) :
         /\ sink' = sink \o download_vanilla_events(run_env, stop)
         /\ AfterDownload(stop)
    /\ UNCHANGED <<run_env, notRun>>

\* `if matches!(loader.as_deref(), Some("fabric")) { download_fabric(..)?; .. }`
FabricBranch ==
    /\ run_pc = "download"
    /\ run_env.loader = "fabric"
    /\ \/ \E stop \in VanillaStops(run_env) \ {"ok"} :
            /\ sink' = sink \o download_vanilla_events(run_env, stop)
            /\ RunErr
       \/ \E stop \in FabricStops(run_env) :
            /\ sink' = sink \o download_fabric_events(run_env, stop)
            /\ AfterDownload(stop)
    /\ UNCHANGED <<run_env, notRun>>

\* `if matches!(loader.as_deref(), Some("forge")) { download_forge(..)?; .. }`
ForgeBranch ==
    /\ run_pc = "download"
    /\ run_env.loader = "forge"
    /\ \E stop \in ForgeStops(run_env) :
         /\ sink' = sink \o download_forge_events(run_env, stop)
         /\ AfterDownload(stop)
    /\ UNCHANGED <<run_env, notRun>>

\* build_vanilla_command, build_fabric_command or build_forge_command and
\* `return Ok(cmd)`.
BuildCommand ==
    /\ run_pc = "build"
    /\ \E built \in BOOLEAN :
         /\ run_pc' = "returned"
         /\ run_ret' = Some(built)
    /\ UNCHANGED <<run_env, sink, notRun>>

\* The caller of prepare_and_launch: "iniciado" or "error", both at 100.
ReportTerminal ==
    /\ run_pc = "returned"
    /\ sink' = Append(sink, 100)
    /\ run_pc' = "reported"
    /\ UNCHANGED <<run_env, run_ret, notRun>>

InitRun ==
    /\ run_pc = "start"
    /\ run_env \in [loader : {"vanilla", "fabric", "forge"},
                    forge : BOOLEAN, java : BOOLEAN, downloads : BOOLEAN,
                    assets : {None} \cup {Some(n) : n \in 0..MaxAssets},
                    libraries : BOOLEAN, profile_libraries : BOOLEAN]
    /\ run_env.loader # "forge" => ~run_env.forge /\ run_env.java
    /\ run_env.loader # "fabric" => ~run_env.profile_libraries
    /\ sink = <<>>
    /\ run_ret = None
    /\ IdleDedup /\ IdleMerge /\ IdleResolve /\ IdleBatch /\ IdleForge /\ IdleLaunch /\ IdleJava /\ IdleInstall /\ IdleFabric /\ IdleProfile /\ IdleRules /\ IdlePhase

NextRun ==
    \/ EmitStart
    \/ FetchManifest
    \/ EnsureForgeInstalled
    \/ ResolveVersion
    \/ VanillaBranch
    \/ FabricBranch
    \/ ForgeBranch
    \/ BuildCommand
    \/ ReportTerminal

SpecRun == InitRun /\ [][NextRun]_vars

\* C30: over one prepare run, for each loader, the percent of an event is
\* never below the percent of the event sent before it.
C30_PercentNeverDecreases ==
    \A i \in 1..(Len(sink) - 1) : sink[i] <= sink[i + 1]

====
